---- MODULE Spec2Model ----
(***************************************************************************)
(* Model of the email channel's inbound pipeline: the dedupe cache         *)
(* (createDedupeCache), the reply-recipient resolver                       *)
(* (resolveReplyRecipients), and the webhook / poll units of work that     *)
(* share the module-level cache recentInboundMessages.                     *)
(*                                                                         *)
(* Three specifications share the variables:                               *)
(*   SpecCache  a cache built with any ttlMs / maxSize, check() called     *)
(*              with any key and any time;                                 *)
(*   SpecReply  resolveReplyRecipients applied to any input;               *)
(*   Spec       webhook handlers and poll runs interleaving at their       *)
(*              awaits over the shared cache.                              *)
(***************************************************************************)
EXTENDS Integers, Sequences, FiniteSets, TLC

VARIABLES
    ttlMs,      \* createDedupeCache: const ttlMs (closure)
    maxSize,    \* createDedupeCache: const maxSize (closure)
    cache,      \* createDedupeCache: the Map, as its entries in insertion order
    log,        \* the most recent calls of check: key, now, returned value
    clock,      \* Date.now()
    units,      \* the units of work: webhook handler invocations and poll runs
    emailClients, \* the accounts that have a client in the emailClients Map
    evicted,    \* keys the size loop of prune deleted and no check recorded since
    rin,        \* resolveReplyRecipients: params
    rout,       \* resolveReplyRecipients: the returned ReplyRecipients
    penv,       \* processInboundEmail: the account configuration and the fetched email
    proc,       \* processInboundEmail: where the call is, and what it has done
    shadow,     \* a second cache that sees the checks of one account only
    fin,        \* the argument of the pure function under study
    fout,       \* its returned value
    http,       \* one request to the /email/inbound route and its response
    serve,      \* monitorEmailProvider in Pub/Sub mode: the watcher child and its timers
    sms,        \* one request to the /sms/inbound route, its response and its processing
    vapi        \* the voice plugin: the stored outbound call contexts and the turns of a call

vars == <<ttlMs, maxSize, cache, log, clock, units, emailClients, evicted, rin, rout,
          penv, proc, shadow, fin, fout, http, serve, sms, vapi>>

---------------------------------------------------------------------------
(* Bounds *)

\* the clock runs from 0 to MaxTime
MaxTime == 2
\* SpecCache builds caches with maxSize in 0..MaxMaxSize
MaxMaxSize == 1
\* originalTo and originalCc hold at most MaxRecipients addresses
MaxRecipients == 2
\* Spec runs NumUnits units of work (webhook notifications and poll runs)
NumUnits == 2
\* the size Spec builds recentInboundMessages with: RECENT_MESSAGE_MAX (2000
\* in the source) scaled down to a size the traffic of the model can overflow
MaxRecent == 1
\* a body holds at most MaxLines lines
MaxLines == 3
\* the dispatcher delivers at most MaxReplies replies for one inbound email
MaxReplies == 2
\* payload.messageIds holds at most MaxIds values
MaxIds == 2
\* a configured hook URL holds at most MaxParams query parameters
MaxParams == 2
\* the size of the cache whose eviction order SpecLru observes
LruSize == 2
\* the most chunks a request body arrives in
MaxChunks == 3
\* the most exits of watcher children SpecServe follows
MaxExits == 3

\* runs of runPoll and calls of cleanup of one monitor
MaxPolls == 3
MaxCleanups == 2

\* outbound calls placed and chat turns served in the vapi model
MaxCalls == 2
MaxTurns == 4

\* options SpecCache builds caches with (negative values are clamped to 0)
TtlOptions == (-1)..MaxTime
MaxSizeOptions == (-1)..MaxMaxSize
\* enough distinct non-empty keys to overflow the largest cache
NumKeys == MaxMaxSize + 1
CacheKeys == { "k" \o ToString(i) : i \in 1..NumKeys }
\* how many calls of check the log keeps
Window == MaxMaxSize + 1

---------------------------------------------------------------------------
(* JavaScript values of type string | null | undefined *)

Str(s) == [t |-> "string", s |-> s]
Null == [t |-> "null"]
Undefined == [t |-> "undefined"]

\* !key
Falsy(v) == v.t # "string" \/ v.s = ""

---------------------------------------------------------------------------
(* createDedupeCache *)

\* cache.get(key): the entry's timestamp, or -1 for undefined
RECURSIVE CacheGet(_, _)
CacheGet(c, key) ==
    IF c = <<>> THEN -1
    ELSE IF Head(c).key = key THEN Head(c).ts
    ELSE CacheGet(Tail(c), key)

CacheHas(c, key) == \E i \in 1..Len(c) : c[i].key = key

CacheKeySet(c) == { c[i].key : i \in 1..Len(c) }

\* mutant of Touch: a key already present keeps its old timestamp
TouchKeepsTimestamp(c, key, now) ==
    Append(SelectSeq(c, LAMBDA e : e.key # key),
           [key |-> key, ts |-> IF CacheHas(c, key) THEN CacheGet(c, key) ELSE now])

\* touch: cache.delete(key); cache.set(key, now)  (the key moves to the end)
Touch(c, key, now) ==
    Append(SelectSeq(c, LAMBDA e : e.key # key), [key |-> key, ts |-> now])

\* mutant of PruneExpired: no entry is removed because of its age
PruneExpiredNever(c, now) == c

\* mutant of PruneExpired: the cutoff is now + ttlMs
PruneExpiredWrongCutoff(c, now) ==
    IF ttlMs > 0
    THEN SelectSeq(c, LAMBDA e : ~(e.ts < now + ttlMs))
    ELSE c

\* prune, first loop: delete every entry with entryTs < cutoff, when ttlMs > 0
PruneExpired(c, now) ==
    IF ttlMs > 0
    THEN SelectSeq(c, LAMBDA e : ~(e.ts < now - ttlMs))
    ELSE c

\* mutant of PruneOldest: the loop stops one entry early
RECURSIVE PruneOldestOffByOne(_)
PruneOldestOffByOne(c) ==
    IF Len(c) > maxSize + 1 /\ c # <<>> THEN PruneOldestOffByOne(Tail(c)) ELSE c

\* prune, second loop: while (cache.size > maxSize) delete the oldest key
RECURSIVE PruneOldest(_)
PruneOldest(c) ==
    IF Len(c) > maxSize /\ c # <<>> THEN PruneOldest(Tail(c)) ELSE c

\* mutant of Prune: the size loop is missing
PruneNoSizeLoop(c, now) == PruneExpired(c, now)

Prune(c, now) == PruneOldest(PruneExpired(c, now))

\* mutant of IsHit: ttlMs = 0 does not disable expiry
IsHitAlwaysExpires(c, key, now) ==
    /\ CacheHas(c, key)
    /\ now - CacheGet(c, key) < ttlMs

\* mutant of IsHit: an entry exactly ttlMs old still counts as a duplicate
IsHitInclusive(c, key, now) ==
    /\ CacheHas(c, key)
    /\ (ttlMs <= 0 \/ now - CacheGet(c, key) <= ttlMs)

\* check: is the call a hit (the branch that returns true)
IsHit(c, key, now) ==
    /\ CacheHas(c, key)
    /\ (ttlMs <= 0 \/ now - CacheGet(c, key) < ttlMs)

\* check: the value returned
CheckReturns(c, v, now) ==
    IF Falsy(v) THEN FALSE ELSE IsHit(c, v.s, now)

\* String(key)
KeyText(v) == IF v.t = "string" THEN v.s ELSE v.t

\* mutant of CheckCache: a hit returns true without touching the entry
CheckCacheHitNoTouch(c, v, now) ==
    IF Falsy(v) THEN c
    ELSE IF IsHit(c, v.s, now) THEN c
    ELSE Prune(Touch(c, v.s, now), now)

\* mutant of CheckCache: the guard "if (!key) return false" is missing
CheckCacheNoGuard(c, v, now) ==
    IF IsHit(c, KeyText(v), now) THEN Touch(c, KeyText(v), now)
    ELSE Prune(Touch(c, KeyText(v), now), now)

\* check: the Map after the call
CheckCache(c, v, now) ==
    IF Falsy(v) THEN c
    ELSE IF IsHit(c, v.s, now) THEN Touch(c, v.s, now)
    ELSE Prune(Touch(c, v.s, now), now)

---------------------------------------------------------------------------
(* resolveReplyRecipients *)

\* the addresses the inputs are drawn from: the bot's, the sender's and a
\* third party's, the first two also in another letter case
Addresses == {"bot@x.com", "Bot@X.com", "alice@x.com", "ALICE@x.com", "carol@x.com"}

\* String.prototype.toLowerCase on Addresses
ToLowerCase(addr) ==
    CASE addr = "Bot@X.com" -> "bot@x.com"
      [] addr = "ALICE@x.com" -> "alice@x.com"
      [] OTHER -> addr

\* const botLower = botEmail.toLowerCase()
BotLower(p) == ToLowerCase(p.botEmail)

\* originalTo.some((addr) => addr.toLowerCase() === botLower)
BotInTo(p) ==
    \E i \in 1..Len(p.originalTo) : ToLowerCase(p.originalTo[i]) = BotLower(p)

\* mutant of KeepAddr: the bot's address is compared case-sensitively
KeepAddrCaseSensitive(p, addr) ==
    /\ addr # p.botEmail
    /\ ToLowerCase(addr) # ToLowerCase(p.originalFrom)

\* mutant of KeepAddr: the sender is not removed
KeepAddrSenderKept(p, addr) ==
    ToLowerCase(addr) # BotLower(p)

\* the filter callback:
\* addr.toLowerCase() !== botLower && addr.toLowerCase() !== originalFrom.toLowerCase()
KeepAddr(p, addr) ==
    /\ ToLowerCase(addr) # BotLower(p)
    /\ ToLowerCase(addr) # ToLowerCase(p.originalFrom)

\* [...originalTo.filter(...), ...originalCc.filter(...)]
FilteredToAndCc(p) ==
    SelectSeq(p.originalTo, LAMBDA addr : KeepAddr(p, addr))
        \o SelectSeq(p.originalCc, LAMBDA addr : KeepAddr(p, addr))

\* the branch taken when the bot was in TO
ReplyBotInTo(p) ==
    [to |-> <<p.originalFrom>>,
     cc |-> IF p.preserveCc THEN FilteredToAndCc(p) ELSE <<>>]

\* mutant of ReplyBotNotInTo: a reply-all, the other TO recipients stay in to
ReplyBotNotInToReplyAll(p) ==
    [to |-> <<p.originalFrom>> \o SelectSeq(p.originalTo, LAMBDA addr : KeepAddr(p, addr)),
     cc |-> IF p.preserveCc
            THEN SelectSeq(p.originalCc, LAMBDA addr : KeepAddr(p, addr))
            ELSE <<>>]

\* mutant of ReplyBotNotInTo: only the original CC is carried forward
ReplyBotNotInToCcOnly(p) ==
    [to |-> <<p.originalFrom>>,
     cc |-> IF p.preserveCc
            THEN SelectSeq(p.originalCc, LAMBDA addr : KeepAddr(p, addr))
            ELSE <<>>]

\* the branch taken otherwise (the bot was in CC)
ReplyBotNotInTo(p) ==
    [to |-> <<p.originalFrom>>,
     cc |-> IF p.preserveCc THEN FilteredToAndCc(p) ELSE <<>>]

ResolveReplyRecipients(p) ==
    IF BotInTo(p) THEN ReplyBotInTo(p) ELSE ReplyBotNotInTo(p)

---------------------------------------------------------------------------
(* SpecCache: one cache, any configuration, any sequence of checks *)

Units == 1..NumUnits

\* a unit of work that has not started; handed, failed and read are the ids
\* given to processInboundEmail, those for which it threw, and those given to
\* markAsRead
IdleUnit ==
    [kind |-> "none", acct |-> "", ids |-> <<>>, hist |-> FALSE, client |-> FALSE,
     pc |-> "idle", pending |-> <<>>, idx |-> 0, checkedAt |-> -1,
     handed |-> {}, failed |-> {}, read |-> {}, resp |-> "none"]

NoReply == [to |-> <<>>, cc |-> <<>>, done |-> FALSE]
NoParams == [botEmail |-> "", originalFrom |-> "", originalTo |-> <<>>,
             originalCc |-> <<>>, preserveCc |-> FALSE]

\* the variables of a specification that does not run processInboundEmail or
\* the pure functions
NoEnv == [t |-> "none"]
NoProc == [pc |-> "none"]
NoValue == [t |-> "none"]
NoHttp == [pc |-> "none"]
NoServe == [pc |-> "none"]
NoSms == [pc |-> "none"]
NoVapi == [pc |-> "none"]

Push(l, e) == IF Len(l) < Window THEN Append(l, e) ELSE Append(Tail(l), e)

\* createDedupeCache(options): ttlMs = Math.max(0, options.ttlMs),
\* maxSize = Math.max(0, Math.floor(options.maxSize)), an empty Map
Max0(n) == IF n > 0 THEN n ELSE 0

CreateDedupeCache(optTtlMs, optMaxSize) ==
    /\ ttlMs = Max0(optTtlMs)
    /\ maxSize = Max0(optMaxSize)
    /\ cache = <<>>

InitCache ==
    /\ \E t \in TtlOptions, m \in MaxSizeOptions : CreateDedupeCache(t, m)
    /\ log = <<>>
    /\ clock = 0
    /\ units = [u \in Units |-> IdleUnit]
    /\ emailClients = {}
    /\ evicted = {}
    /\ rin = NoParams
    /\ rout = NoReply
    /\ penv = NoEnv
    /\ proc = NoProc
    /\ shadow = <<>>
    /\ fin = NoValue
    /\ fout = NoValue
    /\ http = NoHttp
    /\ serve = NoServe
    /\ sms = NoSms
    /\ vapi = NoVapi

\* time passes between two calls
Tick ==
    /\ clock < MaxTime
    /\ clock' = clock + 1
    /\ UNCHANGED <<ttlMs, maxSize, cache, log, units, emailClients, evicted, rin, rout, penv, proc, shadow, fin, fout, http, serve, sms, vapi>>

\* check(key), now = Date.now()
Check(v) ==
    /\ cache' = CheckCache(cache, v, clock)
    /\ log' = Push(log, [key |-> v, now |-> clock, ret |-> CheckReturns(cache, v, clock),
                         existing |-> IF Falsy(v) THEN -1 ELSE CacheGet(cache, v.s)])
    /\ UNCHANGED <<ttlMs, maxSize, clock, units, emailClients, evicted, rin, rout, penv, proc, shadow, fin, fout, http, serve, sms, vapi>>

CheckKey == \E k \in CacheKeys : Check(Str(k))

CheckNoKey == \E v \in {Str(""), Null, Undefined} : Check(v)

NextCache == Tick \/ CheckKey \/ CheckNoKey

SpecCache == InitCache /\ [][NextCache]_vars

---------------------------------------------------------------------------
(* SpecLru: one dedupe cache with room for several keys, and one key more
   than it has room for *)

LruKeys == { "k" \o ToString(i) : i \in 1..(LruSize + 1) }

InitLru ==
    /\ \E t \in TtlOptions : CreateDedupeCache(t, LruSize)
    /\ log = <<>>
    /\ clock = 0
    /\ units = [u \in Units |-> IdleUnit]
    /\ emailClients = {}
    /\ evicted = {}
    /\ rin = NoParams
    /\ rout = NoReply
    /\ penv = NoEnv
    /\ proc = NoProc
    /\ shadow = <<>>
    /\ fin = NoValue
    /\ fout = NoValue
    /\ http = NoHttp
    /\ serve = NoServe
    /\ sms = NoSms
    /\ vapi = NoVapi

CheckLru == \E k \in LruKeys : Check(Str(k))

NextLru == Tick \/ CheckLru \/ CheckNoKey

SpecLru == InitLru /\ [][NextLru]_vars

---------------------------------------------------------------------------
(* SpecReply: resolveReplyRecipients applied once to any input *)

RECURSIVE SeqsUpTo(_, _)
SeqsUpTo(S, n) ==
    IF n = 0 THEN {<<>>}
    ELSE LET shorter == SeqsUpTo(S, n - 1)
         IN  shorter \cup { Append(q, a) : q \in shorter, a \in S }

RecipientLists == SeqsUpTo(Addresses, MaxRecipients)

\* the account's own address, in either letter case
BotAddresses == {"bot@x.com", "Bot@X.com"}

InitReply ==
    /\ rin \in [botEmail : BotAddresses, originalFrom : Addresses,
                originalTo : RecipientLists, originalCc : RecipientLists,
                preserveCc : BOOLEAN]
    /\ rout = NoReply
    /\ ttlMs = 0
    /\ maxSize = 0
    /\ cache = <<>>
    /\ log = <<>>
    /\ clock = 0
    /\ units = [u \in Units |-> IdleUnit]
    /\ emailClients = {}
    /\ evicted = {}
    /\ penv = NoEnv
    /\ proc = NoProc
    /\ shadow = <<>>
    /\ fin = NoValue
    /\ fout = NoValue
    /\ http = NoHttp
    /\ serve = NoServe
    /\ sms = NoSms
    /\ vapi = NoVapi

\* const replyRecipients = resolveReplyRecipients(params)
Resolve ==
    /\ ~rout.done
    /\ rout' = [to |-> ResolveReplyRecipients(rin).to,
                cc |-> ResolveReplyRecipients(rin).cc,
                done |-> TRUE]
    /\ UNCHANGED <<ttlMs, maxSize, cache, log, clock, units, emailClients, evicted, rin, penv, proc, shadow, fin, fout, http, serve, sms, vapi>>

NextReply == Resolve

SpecReply == InitReply /\ [][NextReply]_vars

---------------------------------------------------------------------------
(* Spec: webhook notifications and poll runs over recentInboundMessages *)

RECENT_MESSAGE_TTL_MS == 600000

\* the clock of Spec advances in steps of half a TTL
TickMs == RECENT_MESSAGE_TTL_MS \div 2

Accounts == {"default"}

\* enough message ids to overflow the cache
NumMsgs == MaxRecent + 1
MsgIds == { "m" \o ToString(i) : i \in 1..NumMsgs }

\* `${accountId}:${messageId}`
DedupKey(acct, id) == acct \o ":" \o id

\* what extractInboundMessageIds returns: ids without repeats (Array.from of a Set)
ExtractedIdLists ==
    { q \in SeqsUpTo(MsgIds, NumMsgs) : \A i, j \in 1..Len(q) : i # j => q[i] # q[j] }

\* what getHistory and listUnreadMessageIds return: any list of ids
FetchedIdLists == SeqsUpTo(MsgIds, NumMsgs)

\* the keys the size loop of prune deletes when key is recorded at now
SizeEvicted(c, key, now) ==
    CacheKeySet(PruneExpired(Touch(c, key, now), now))
        \ CacheKeySet(Prune(Touch(c, key, now), now))

\* mutant of FilterNew: the ids are tested against the cache, but a new id is
\* not recorded by the test
RECURSIVE FilterPeek(_, _, _, _)
FilterPeek(st, acct, ids, now) ==
    IF ids = <<>> THEN st
    ELSE LET key == Str(DedupKey(acct, Head(ids)))
             dup == CheckReturns(st.cache, key, now)
         IN  FilterPeek(
                 [cache |-> IF dup THEN CheckCache(st.cache, key, now) ELSE st.cache,
                  pending |-> IF dup THEN st.pending ELSE Append(st.pending, Head(ids)),
                  evicted |-> st.evicted],
                 acct, Tail(ids), now)

\* messageIds.filter((messageId) => !recentInboundMessages.check(`${accountId}:${messageId}`))
\* st: the cache so far, the ids kept so far, the evicted keys so far
RECURSIVE FilterNew(_, _, _, _)
FilterNew(st, acct, ids, now) ==
    IF ids = <<>> THEN st
    ELSE LET key == Str(DedupKey(acct, Head(ids)))
             dup == CheckReturns(st.cache, key, now)
         IN  FilterNew(
                 [cache |-> CheckCache(st.cache, key, now),
                  pending |-> IF dup THEN st.pending ELSE Append(st.pending, Head(ids)),
                  evicted |-> IF dup THEN st.evicted
                              ELSE (st.evicted \ {key.s})
                                       \cup SizeEvicted(st.cache, key.s, now)],
                 acct, Tail(ids), now)

\* const recentInboundMessages = createDedupeCache({ttlMs: RECENT_MESSAGE_TTL_MS,
\* maxSize: RECENT_MESSAGE_MAX}); emailClients = new Map()
Init ==
    /\ CreateDedupeCache(RECENT_MESSAGE_TTL_MS, MaxRecent)
    /\ log = <<>>
    /\ clock = 0
    /\ units = [u \in Units |-> IdleUnit]
    /\ emailClients = {}
    /\ evicted = {}
    /\ rin = NoParams
    /\ rout = NoReply
    /\ penv = NoEnv
    /\ proc = NoProc
    /\ shadow = <<>>
    /\ fin = NoValue
    /\ fout = NoValue
    /\ http = NoHttp
    /\ serve = NoServe
    /\ sms = NoSms
    /\ vapi = NoVapi

\* time passes
TickSys ==
    /\ clock < MaxTime * TickMs
    /\ clock' = clock + TickMs
    /\ UNCHANGED <<ttlMs, maxSize, cache, log, units, emailClients, evicted, rin, rout, penv, proc, shadow, fin, fout, http, serve, sms, vapi>>

\* monitorEmailProvider: emailClients.set(account.accountId, client)
StartMonitor(a) ==
    /\ a \notin emailClients
    /\ emailClients' = emailClients \cup {a}
    /\ UNCHANGED <<ttlMs, maxSize, cache, log, clock, units, evicted, rin, rout, penv, proc, shadow, fin, fout, http, serve, sms, vapi>>

\* monitorEmailProvider cleanup: emailClients.delete(account.accountId)
Cleanup(a) ==
    /\ a \in emailClients
    /\ emailClients' = emailClients \ {a}
    /\ UNCHANGED <<ttlMs, maxSize, cache, log, clock, units, evicted, rin, rout, penv, proc, shadow, fin, fout, http, serve, sms, vapi>>

\* units start in the order of their numbers
MayStart(u) ==
    /\ units[u].pc = "idle"
    /\ \A v \in Units : v < u => units[v].pc # "idle"

\* the handler up to "await opts.getClient(opts.accountId)": a payload with
\* the extracted ids, or with none and possibly a historyId
WebhookReceive(u, a, ids, hist) ==
    /\ MayStart(u)
    /\ hist => ids = <<>>
    /\ units' = [units EXCEPT ![u] =
          IF ids = <<>> /\ ~hist
          THEN [IdleUnit EXCEPT !.kind = "webhook", !.acct = a, !.pc = "done",
                                !.resp = "200 no messageId"]
          ELSE [IdleUnit EXCEPT !.kind = "webhook", !.acct = a, !.ids = ids,
                                !.hist = hist, !.client = (a \in emailClients),
                                !.pc = "getClient"]]
    /\ UNCHANGED <<ttlMs, maxSize, cache, log, clock, emailClients, evicted, rin, rout, penv, proc, shadow, fin, fout, http, serve, sms, vapi>>

\* mutant of Filtered: every id is pending, whatever check returned for it
FilteredHandsAll(u, ids) ==
    LET r == units[u]
        st == FilterNew([cache |-> cache, pending |-> <<>>, evicted |-> evicted],
                        r.acct, ids, clock)
    IN  /\ cache' = st.cache
        /\ evicted' = st.evicted
        /\ units' = [units EXCEPT ![u] =
              IF ids = <<>>
              THEN [r EXCEPT !.ids = ids, !.pc = "done", !.checkedAt = clock,
                             !.resp = IF r.kind = "webhook" THEN "200 duplicate"
                                      ELSE "none"]
              ELSE [r EXCEPT !.ids = ids, !.pc = "process", !.pending = ids,
                             !.idx = 1, !.checkedAt = clock,
                             !.handed = {ids[1]}]]

\* the filter over ids, then either the end of the unit (nothing pending) or
\* the call of processInboundEmail for the first pending id
Filtered(u, ids) ==
    LET r == units[u]
        st == FilterNew([cache |-> cache, pending |-> <<>>, evicted |-> evicted],
                        r.acct, ids, clock)
    IN  /\ cache' = st.cache
        /\ evicted' = st.evicted
        /\ units' = [units EXCEPT ![u] =
              IF st.pending = <<>>
              THEN [r EXCEPT !.ids = ids, !.pc = "done", !.checkedAt = clock,
                             !.resp = IF r.kind = "webhook" THEN "200 duplicate"
                                      ELSE "none"]
              ELSE [r EXCEPT !.ids = ids, !.pc = "process", !.pending = st.pending,
                             !.idx = 1, !.checkedAt = clock,
                             !.handed = {st.pending[1]}]]

\* the unit goes on to its next pending id, or ends with response resp
NextPending(r, resp) ==
    IF r.idx < Len(r.pending)
    THEN [r EXCEPT !.pc = "process", !.idx = r.idx + 1,
                   !.handed = r.handed \cup {r.pending[r.idx + 1]}]
    ELSE [r EXCEPT !.pc = "done", !.idx = 0, !.resp = resp]

\* mutant of WebhookClient: the ids of the payload are run through the dedup
\* filter before the client is looked at
WebhookClientFiltersFirst(u) ==
    /\ units[u].kind = "webhook"
    /\ units[u].pc = "getClient"
    /\ IF ~units[u].client
       THEN LET st == FilterNew([cache |-> cache, pending |-> <<>>,
                                 evicted |-> evicted],
                                units[u].acct, units[u].ids, clock)
            IN  /\ units' = [units EXCEPT ![u].pc = "done",
                                          ![u].resp = "500 Gmail client not available"]
                /\ cache' = st.cache
                /\ evicted' = st.evicted
       ELSE IF units[u].ids = <<>>
       THEN /\ units' = [units EXCEPT ![u].pc = "getHistory"]
            /\ UNCHANGED <<cache, evicted>>
       ELSE Filtered(u, units[u].ids)
    /\ UNCHANGED <<ttlMs, maxSize, log, clock, emailClients, rin, rout, penv, proc, shadow, fin, fout, http, serve, sms, vapi>>

\* the handler after getClient resolved
WebhookClient(u) ==
    /\ units[u].kind = "webhook"
    /\ units[u].pc = "getClient"
    /\ IF ~units[u].client
       THEN /\ units' = [units EXCEPT ![u].pc = "done",
                                      ![u].resp = "500 Gmail client not available"]
            /\ UNCHANGED <<cache, evicted>>
       ELSE IF units[u].ids = <<>>
       THEN /\ units' = [units EXCEPT ![u].pc = "getHistory"]
            /\ UNCHANGED <<cache, evicted>>
       ELSE Filtered(u, units[u].ids)
    /\ UNCHANGED <<ttlMs, maxSize, log, clock, emailClients, rin, rout, penv, proc, shadow, fin, fout, http, serve, sms, vapi>>

\* messageIds = await getHistory(client, historyId) resolved with ids
HistoryReturns(u, ids) ==
    /\ units[u].pc = "getHistory"
    /\ IF ids = <<>>
       THEN /\ units' = [units EXCEPT ![u].pc = "done", ![u].resp = "200 no messageId"]
            /\ UNCHANGED <<cache, evicted>>
       ELSE Filtered(u, ids)
    /\ UNCHANGED <<ttlMs, maxSize, log, clock, emailClients, rin, rout, penv, proc, shadow, fin, fout, http, serve, sms, vapi>>

\* getHistory rejected: caught and logged, messageIds stays empty
HistoryThrows(u) ==
    /\ units[u].pc = "getHistory"
    /\ units' = [units EXCEPT ![u].pc = "done", ![u].resp = "200 no messageId"]
    /\ UNCHANGED <<ttlMs, maxSize, cache, log, clock, emailClients, evicted, rin, rout, penv, proc, shadow, fin, fout, http, serve, sms, vapi>>

\* await processInboundEmail(...) resolved
ProcessReturns(u) ==
    /\ units[u].pc = "process"
    /\ units' = [units EXCEPT ![u] =
          IF units[u].kind = "webhook"
          THEN NextPending(units[u], "200 processed")
          ELSE [units[u] EXCEPT !.pc = "markAsRead",
                                !.read = @ \cup {units[u].pending[units[u].idx]}]]
    /\ UNCHANGED <<ttlMs, maxSize, cache, log, clock, emailClients, evicted, rin, rout, penv, proc, shadow, fin, fout, http, serve, sms, vapi>>

\* await opts.getClient(opts.accountId) rejected: caught by the handler, which
\* answers 500
ClientThrows(u) ==
    /\ units[u].kind = "webhook"
    /\ units[u].pc = "getClient"
    /\ units' = [units EXCEPT ![u].pc = "done", ![u].resp = "500 error"]
    /\ UNCHANGED <<ttlMs, maxSize, cache, log, clock, emailClients, evicted, rin, rout, penv, proc, shadow, fin, fout, http, serve, sms, vapi>>

\* mutant of ProcessThrows: the rejection leaves the webhook handler, no
\* response is sent
ProcessThrowsPropagates(u) ==
    /\ units[u].pc = "process"
    /\ units' = [units EXCEPT ![u] =
          IF units[u].kind = "webhook"
          THEN [units[u] EXCEPT !.pc = "done", !.idx = 0]
          ELSE NextPending(units[u], "none")]
    /\ UNCHANGED <<ttlMs, maxSize, cache, log, clock, emailClients, evicted, rin, rout, penv, proc, shadow, fin, fout, http, serve, sms, vapi>>

\* mutant of ProcessThrows: the webhook handler, like runPoll, goes on with
\* the next pending id after a rejection
ProcessThrowsGoesOn(u) ==
    /\ units[u].pc = "process"
    /\ units' = [units EXCEPT ![u] =
          NextPending([units[u] EXCEPT
                          !.failed = @ \cup {units[u].pending[units[u].idx]}],
                      IF units[u].kind = "webhook" THEN "500 error" ELSE "none")]
    /\ UNCHANGED <<ttlMs, maxSize, cache, log, clock, emailClients, evicted, rin, rout, penv, proc, shadow, fin, fout, http, serve, sms, vapi>>

\* mutant of ProcessThrows: runPoll, like the webhook handler, gives up the
\* run at the first rejection
ProcessThrowsEndsRun(u) ==
    /\ units[u].pc = "process"
    /\ units' = [units EXCEPT ![u] =
          [units[u] EXCEPT !.pc = "done", !.idx = 0,
                           !.resp = IF units[u].kind = "webhook" THEN "500 error"
                                    ELSE "none",
                           !.failed = @ \cup {units[u].pending[units[u].idx]}]]
    /\ UNCHANGED <<ttlMs, maxSize, cache, log, clock, emailClients, evicted, rin, rout, penv, proc, shadow, fin, fout, http, serve, sms, vapi>>

\* await processInboundEmail(...) rejected: the webhook handler answers 500,
\* runPoll logs and goes on with the next pending id
ProcessThrows(u) ==
    /\ units[u].pc = "process"
    /\ units' = [units EXCEPT ![u] =
          IF units[u].kind = "webhook"
          THEN [units[u] EXCEPT !.pc = "done", !.idx = 0, !.resp = "500 error",
                                !.failed = @ \cup {units[u].pending[units[u].idx]}]
          ELSE NextPending([units[u] EXCEPT
                               !.failed = @ \cup {units[u].pending[units[u].idx]}],
                           "none")]
    /\ UNCHANGED <<ttlMs, maxSize, cache, log, clock, emailClients, evicted, rin, rout, penv, proc, shadow, fin, fout, http, serve, sms, vapi>>

\* runPoll up to "await listUnreadMessageIds(client)"
PollStart(u, a) ==
    /\ MayStart(u)
    /\ a \in emailClients
    /\ units' = [units EXCEPT ![u] =
          [IdleUnit EXCEPT !.kind = "poll", !.acct = a, !.client = TRUE,
                           !.pc = "listUnread"]]
    /\ UNCHANGED <<ttlMs, maxSize, cache, log, clock, emailClients, evicted, rin, rout, penv, proc, shadow, fin, fout, http, serve, sms, vapi>>

\* listUnreadMessageIds resolved with ids
ListReturns(u, ids) ==
    /\ units[u].pc = "listUnread"
    /\ Filtered(u, ids)
    /\ UNCHANGED <<ttlMs, maxSize, log, clock, emailClients, rin, rout, penv, proc, shadow, fin, fout, http, serve, sms, vapi>>

\* listUnreadMessageIds rejected: "email poll error"
ListThrows(u) ==
    /\ units[u].pc = "listUnread"
    /\ units' = [units EXCEPT ![u].pc = "done"]
    /\ UNCHANGED <<ttlMs, maxSize, cache, log, clock, emailClients, evicted, rin, rout, penv, proc, shadow, fin, fout, http, serve, sms, vapi>>

\* await markAsRead(client, messageId) settled (a rejection is caught per message)
MarkAsReadSettles(u) ==
    /\ units[u].pc = "markAsRead"
    /\ units' = [units EXCEPT ![u] = NextPending(units[u], "none")]
    /\ UNCHANGED <<ttlMs, maxSize, cache, log, clock, emailClients, evicted, rin, rout, penv, proc, shadow, fin, fout, http, serve, sms, vapi>>

Next ==
    \/ TickSys
    \/ \E a \in Accounts : StartMonitor(a)
    \/ \E a \in Accounts : Cleanup(a)
    \/ \E u \in Units, a \in Accounts, ids \in ExtractedIdLists, hist \in BOOLEAN :
          WebhookReceive(u, a, ids, hist)
    \/ \E u \in Units : WebhookClient(u)
    \/ \E u \in Units : ClientThrows(u)
    \/ \E u \in Units, ids \in FetchedIdLists : HistoryReturns(u, ids)
    \/ \E u \in Units : HistoryThrows(u)
    \/ \E u \in Units : ProcessReturns(u)
    \/ \E u \in Units : ProcessThrows(u)
    \/ \E u \in Units, a \in Accounts : PollStart(u, a)
    \/ \E u \in Units, ids \in FetchedIdLists : ListReturns(u, ids)
    \/ \E u \in Units : ListThrows(u)
    \/ \E u \in Units : MarkAsReadSettles(u)

Spec == Init /\ [][Next]_vars

---------------------------------------------------------------------------
(* SpecExtract: extractLatestContent applied once to any body *)

\* the lines a body is made of: plain text, blank lines, quoted lines, an
\* indented quote, stop markers and their near misses
BodyLines ==
    {"hi", " hi ", "", "  ", "> old", " > old",
     "On Mon wrote:", "  on mon WROTE:", "On wrote:",
     "--Original Message--", "-- original message", "-Original Message-", "--",
     "__", "_"}

\* String.prototype.trimStart on a line
TrimStart(l) ==
    CASE l = " hi " -> "hi "
      [] l = "  " -> ""
      [] l = " > old" -> "> old"
      [] l = "  on mon WROTE:" -> "on mon WROTE:"
      [] OTHER -> l

\* String.prototype.trimEnd on a line
TrimEnd(l) ==
    CASE l = " hi " -> " hi"
      [] l = "hi " -> "hi"
      [] l = "  " -> ""
      [] OTHER -> l

\* line.trim()
Trim(l) == TrimEnd(TrimStart(l))

\* /^On .+ wrote:$/i.test(t)
IsOnWrote(t) == t \in {"On Mon wrote:", "on mon WROTE:"}

\* /^-{2,}\s*Original Message/i.test(t)
IsOriginalMessage(t) == t \in {"--Original Message--", "-- original message"}

\* /^_{2,}$/.test(t)
IsUnderscores(t) == t \in {"__"}

\* line.startsWith(">")
StartsWithGt(l) == l \in {"> old"}

\* a body string as the list of its lines, bodyText.split("\n")
Text(ls) == [t |-> "string", lines |-> ls]

\* the empty string
EmptyText == Text(<<"">>)

\* mutant of ScanLines: a quoted line ends the scan
RECURSIVE ScanLinesQuoteStops(_, _)
ScanLinesQuoteStops(lines, result) ==
    IF lines = <<>> THEN result
    ELSE LET line == Head(lines)
         IN  IF IsOnWrote(Trim(line)) THEN result
             ELSE IF IsOriginalMessage(Trim(line)) THEN result
             ELSE IF IsUnderscores(Trim(line)) THEN result
             ELSE IF StartsWithGt(line) THEN result
             ELSE ScanLinesQuoteStops(Tail(lines), Append(result, line))

\* mutant of ScanLines: quoted lines are kept
RECURSIVE ScanLinesKeepsQuoted(_, _)
ScanLinesKeepsQuoted(lines, result) ==
    IF lines = <<>> THEN result
    ELSE LET line == Head(lines)
         IN  IF IsOnWrote(Trim(line)) THEN result
             ELSE IF IsOriginalMessage(Trim(line)) THEN result
             ELSE IF IsUnderscores(Trim(line)) THEN result
             ELSE ScanLinesKeepsQuoted(Tail(lines), Append(result, line))

\* for (const line of lines) { break on a stop marker; continue on a quoted
\* line; result.push(line) }
RECURSIVE ScanLines(_, _)
ScanLines(lines, result) ==
    IF lines = <<>> THEN result
    ELSE LET line == Head(lines)
         IN  IF IsOnWrote(Trim(line)) THEN result
             ELSE IF IsOriginalMessage(Trim(line)) THEN result
             ELSE IF IsUnderscores(Trim(line)) THEN result
             ELSE IF StartsWithGt(line) THEN ScanLines(Tail(lines), result)
             ELSE ScanLines(Tail(lines), Append(result, line))

\* the lines left when the whitespace-only lines at the front are dropped
RECURSIVE DropBlankFront(_)
DropBlankFront(ls) ==
    IF ls = <<>> THEN <<>>
    ELSE IF Trim(Head(ls)) = "" THEN DropBlankFront(Tail(ls))
    ELSE ls

\* the lines left when the whitespace-only lines at the end are dropped
RECURSIVE DropBlankEnd(_)
DropBlankEnd(ls) ==
    IF ls = <<>> THEN <<>>
    ELSE IF Trim(ls[Len(ls)]) = "" THEN DropBlankEnd(SubSeq(ls, 1, Len(ls) - 1))
    ELSE ls

\* result.join("\n").trim(), as the lines of the trimmed string
JoinTrim(result) ==
    LET core == DropBlankEnd(DropBlankFront(result))
    IN  IF core = <<>> THEN <<"">>
        ELSE IF Len(core) = 1 THEN <<Trim(core[1])>>
        ELSE <<TrimStart(core[1])>> \o SubSeq(core, 2, Len(core) - 1)
                 \o <<TrimEnd(core[Len(core)])>>

\* export function extractLatestContent(bodyText: string): string
ExtractLatestContent(bodyText) ==
    IF bodyText \in {Undefined, Null, EmptyText} THEN EmptyText
    ELSE Text(JoinTrim(ScanLines(bodyText.lines, <<>>)))

\* the bodies: absent, or 1..MaxLines lines
Bodies ==
    {Undefined} \cup { Text(ls) : ls \in SeqsUpTo(BodyLines, MaxLines) \ {<<>>} }

InitExtract ==
    /\ fin \in Bodies
    /\ fout = NoValue
    /\ ttlMs = 0
    /\ maxSize = 0
    /\ cache = <<>>
    /\ log = <<>>
    /\ clock = 0
    /\ units = [u \in Units |-> IdleUnit]
    /\ emailClients = {}
    /\ evicted = {}
    /\ rin = NoParams
    /\ rout = NoReply
    /\ penv = NoEnv
    /\ proc = NoProc
    /\ shadow = <<>>
    /\ http = NoHttp
    /\ serve = NoServe
    /\ sms = NoSms
    /\ vapi = NoVapi

\* const latestContent = extractLatestContent(bodyText)
Extract ==
    /\ fout = NoValue
    /\ fout' = ExtractLatestContent(fin)
    /\ UNCHANGED <<ttlMs, maxSize, cache, log, clock, units, emailClients, evicted,
                   rin, rout, penv, proc, shadow, fin, http, serve,
                sms, vapi>>

NextExtract == Extract

SpecExtract == InitExtract /\ [][NextExtract]_vars

---------------------------------------------------------------------------
(* SpecProcess: one call of processInboundEmail, for any account
   configuration and any fetched email *)

Arr(a) == [t |-> "array", a |-> a]
Bool(b) == [t |-> "boolean", b |-> b]

\* account.config.dmPolicy
DmPolicies == {Undefined, Str("disabled"), Str("allowlist"), Str("pairing"), Str("open")}

\* account.config.allowFrom
AllowLists ==
    {Undefined, Arr(<<>>), Arr(<<"*">>), Arr(<<"ALICE@x.com">>),
     Arr(<<"carol@x.com", "*">>)}

\* account.config.preserveCc
PreserveCcOptions == {Undefined, Bool(TRUE), Bool(FALSE)}

\* account.gmailAddress; client.userEmail is "bot@x.com"
GmailAddresses == {Undefined, Str("Bot@X.com")}

\* what getMessage returns
Emails ==
    [from : {"alice@x.com", "Bot@X.com", "carol@x.com"},
     to : {<<"bot@x.com">>, <<"carol@x.com", "Bot@X.com">>},
     cc : {<<>>, <<"alice@x.com", "bot@x.com">>},
     bodyText : {Undefined, Text(<<"> old">>), Text(<<"hi", "On Mon wrote:", "> old">>)},
     bodyHtml : {Undefined, Str("<p>hi</p>")},
     attachments : 0..1,
     messageId : {"<m1@x>"},
     references : {<<>>, <<"<m0@x>">>},
     threadId : {"t1"}]

\* htmlToPlainText(html): convert(html, ...).trim()
HtmlToPlainText(html) ==
    CASE html = Str("<p>hi</p>") -> Text(<<"hi">>)
      [] OTHER -> EmptyText

\* account.gmailAddress?.toLowerCase() ?? client.userEmail.toLowerCase()
BotEmail(env) ==
    IF env.gmailAddress # Undefined THEN ToLowerCase(env.gmailAddress.s)
    ELSE ToLowerCase(env.userEmail)

\* account.config.dmPolicy ?? "allowlist"
DmPolicy(env) == IF env.dmPolicy = Undefined THEN "allowlist" ELSE env.dmPolicy.s

\* (account.config.allowFrom ?? []).map((e) => e.toLowerCase())
AllowFrom(env) ==
    IF env.allowFrom = Undefined THEN <<>>
    ELSE [i \in 1..Len(env.allowFrom.a) |-> ToLowerCase(env.allowFrom.a[i])]

\* Array.prototype.includes
Includes(l, x) == \E i \in 1..Len(l) : l[i] = x

\* let bodyText = email.bodyText; if (!bodyText && email.bodyHtml) bodyText =
\* htmlToPlainText(email.bodyHtml)
BodyText(email) ==
    IF email.bodyText \in {Undefined, EmptyText} /\ email.bodyHtml # Undefined
    THEN HtmlToPlainText(email.bodyHtml)
    ELSE email.bodyText

LatestContent(email) == ExtractLatestContent(BodyText(email))

\* mutant of Gate: the sender is not compared with the bot's address
GateNoSelfCheck(env) ==
    IF DmPolicy(env) = "disabled" THEN "disabled"
    ELSE IF /\ DmPolicy(env) # "open"
            /\ Len(AllowFrom(env)) > 0
            /\ ~Includes(AllowFrom(env), "*")
            /\ ~Includes(AllowFrom(env), ToLowerCase(env.email.from))
    THEN "not in allowFrom"
    ELSE IF LatestContent(env.email) = EmptyText /\ env.email.attachments = 0
    THEN "empty"
    ELSE "pass"

\* mutant of Gate: the content is not looked at
GateNoContentCheck(env) ==
    IF ToLowerCase(env.email.from) = BotEmail(env) THEN "self"
    ELSE IF DmPolicy(env) = "disabled" THEN "disabled"
    ELSE IF /\ DmPolicy(env) # "open"
            /\ Len(AllowFrom(env)) > 0
            /\ ~Includes(AllowFrom(env), "*")
            /\ ~Includes(AllowFrom(env), ToLowerCase(env.email.from))
    THEN "not in allowFrom"
    ELSE "pass"

\* the early returns of processInboundEmail, in their order: the ground on
\* which the email is dropped, or "pass"
Gate(env) ==
    IF ToLowerCase(env.email.from) = BotEmail(env) THEN "self"
    ELSE IF DmPolicy(env) = "disabled" THEN "disabled"
    ELSE IF /\ DmPolicy(env) # "open"
            /\ Len(AllowFrom(env)) > 0
            /\ ~Includes(AllowFrom(env), "*")
            /\ ~Includes(AllowFrom(env), ToLowerCase(env.email.from))
    THEN "not in allowFrom"
    ELSE IF LatestContent(env.email) = EmptyText /\ env.email.attachments = 0
    THEN "empty"
    ELSE "pass"

\* resolveReplyRecipients({botEmail, originalFrom: email.from, originalTo:
\* email.to, originalCc: email.cc, preserveCc: account.config.preserveCc !== false})
ReplyRecipients(env) ==
    ResolveReplyRecipients(
        [botEmail |-> BotEmail(env), originalFrom |-> env.email.from,
         originalTo |-> env.email.to, originalCc |-> env.email.cc,
         preserveCc |-> env.preserveCc # Bool(FALSE)])

\* mutant of SentEmail: the inbound references are not carried over
SentEmailNoReferences(env) ==
    [to |-> <<env.email.from>>,
     cc |-> ReplyRecipients(env).cc,
     threadId |-> env.email.threadId,
     inReplyTo |-> env.email.messageId,
     references |-> <<env.email.messageId>>]

\* deliver: sendEmailMessage(email.from, text, {threadId, inReplyTo,
\* references, cc, ...}), and sendEmail({to: [to], cc: opts.cc, inReplyTo:
\* opts.inReplyTo, references: opts.references, threadId: opts.threadId})
SentEmail(env) ==
    [to |-> <<env.email.from>>,
     cc |-> ReplyRecipients(env).cc,
     threadId |-> env.email.threadId,
     inReplyTo |-> env.email.messageId,
     references |-> env.email.references \o <<env.email.messageId>>]

\* latestContent || bodyText
BodyForAgent(env) ==
    IF LatestContent(env.email) # EmptyText THEN LatestContent(env.email)
    ELSE BodyText(env.email)

\* the body fields of ctxPayload
CtxPayload(env) ==
    [BodyForAgent |-> BodyForAgent(env),
     RawBody |-> BodyText(env.email),
     CommandBody |-> BodyForAgent(env)]

\* the call as it starts: at "await getMessage(client, messageId)"
StartProc ==
    [pc |-> "getMessage", outcome |-> "none", dispatched |-> FALSE, sent |-> <<>>,
     ctx |-> NoValue]

InitProcess ==
    /\ penv \in [dmPolicy : DmPolicies, allowFrom : AllowLists,
                 preserveCc : PreserveCcOptions, gmailAddress : GmailAddresses,
                 userEmail : {"bot@x.com"}, email : Emails]
    /\ proc = StartProc
    /\ ttlMs = 0
    /\ maxSize = 0
    /\ cache = <<>>
    /\ log = <<>>
    /\ clock = 0
    /\ units = [u \in Units |-> IdleUnit]
    /\ emailClients = {}
    /\ evicted = {}
    /\ rin = NoParams
    /\ rout = NoReply
    /\ shadow = <<>>
    /\ fin = NoValue
    /\ fout = NoValue
    /\ http = NoHttp
    /\ serve = NoServe
    /\ sms = NoSms
    /\ vapi = NoVapi

ProcUnchanged ==
    UNCHANGED <<ttlMs, maxSize, cache, log, clock, units, emailClients, evicted,
                rin, rout, penv, shadow, fin, fout, http, serve,
                sms, vapi>>

\* getMessage resolved: the early returns, then either the attachment loop or
\* the steps up to "await core.channel.session.updateLastRoute"
GetMessageReturns ==
    /\ proc.pc = "getMessage"
    /\ proc' = IF Gate(penv) # "pass"
               THEN [proc EXCEPT !.pc = "done", !.outcome = Gate(penv)]
               ELSE IF penv.email.attachments > 0
               THEN [proc EXCEPT !.pc = "attachment"]
               ELSE [proc EXCEPT !.pc = "updateLastRoute"]
    /\ ProcUnchanged

\* getAttachment and saveMediaBuffer settled; a rejection is caught and logged
AttachmentSettles ==
    /\ proc.pc = "attachment"
    /\ proc' = [proc EXCEPT !.pc = "updateLastRoute"]
    /\ ProcUnchanged

\* updateLastRoute resolved: createReplyDispatcherWithTyping, then "await
\* core.channel.reply.dispatchReplyFromConfig({ctx: ctxPayload, ...})"
UpdateLastRouteReturns ==
    /\ proc.pc = "updateLastRoute"
    /\ proc' = [proc EXCEPT !.pc = "dispatch", !.dispatched = TRUE,
                            !.ctx = CtxPayload(penv)]
    /\ ProcUnchanged

\* the dispatcher calls deliver(payload), and sendEmail sends the reply
Deliver ==
    /\ proc.pc = "dispatch"
    /\ Len(proc.sent) < MaxReplies
    /\ proc' = [proc EXCEPT !.sent = Append(proc.sent, SentEmail(penv))]
    /\ ProcUnchanged

\* dispatchReplyFromConfig resolved; markDispatchIdle()
DispatchReturns ==
    /\ proc.pc = "dispatch"
    /\ proc' = [proc EXCEPT !.pc = "done", !.outcome = "dispatched"]
    /\ ProcUnchanged

\* a collaborator throws or rejects (getMessage, resolveAgentRoute,
\* updateLastRoute, dispatchReplyFromConfig, ...): the call rejects
CollaboratorThrows ==
    /\ proc.pc \in {"getMessage", "updateLastRoute", "dispatch"}
    /\ proc' = [proc EXCEPT !.pc = "done", !.outcome = "threw"]
    /\ ProcUnchanged

NextProcess ==
    \/ GetMessageReturns
    \/ AttachmentSettles
    \/ UpdateLastRouteReturns
    \/ Deliver
    \/ DispatchReturns
    \/ CollaboratorThrows

SpecProcess == InitProcess /\ [][NextProcess]_vars

---------------------------------------------------------------------------
(* SpecIds: extractInboundMessageIds applied once to any payload *)

Num(n) == [t |-> "number", n |-> n]

\* String.prototype.trim on a message id
TrimId(s) ==
    CASE s = " m1 " -> "m1"
      [] s = " m2 " -> "m2"
      [] s = "  " -> ""
      [] OTHER -> s

\* the values found in the arrays of a payload
ArrayValues == {Str("m1"), Str(" m2 "), Str(""), Num(5)}

\* the elements of payload.messages
MessageNodes ==
    {Null,
     [t |-> "object", messageId |-> Undefined, id |-> Str("m3")],
     [t |-> "object", messageId |-> Str("m2"), id |-> Str(" m1 ")]}

\* payload.data
DataNodes ==
    {Undefined, Arr(<<>>),
     [t |-> "object", messageId |-> Str("m4"), id |-> Undefined,
      messageIds |-> Undefined, messages |-> Undefined, data |-> Undefined],
     [t |-> "object", messageId |-> Str("m1"), id |-> Str("  "),
      messageIds |-> Arr(<<Str("m2"), Str("m4")>>),
      messages |-> Arr(<<[t |-> "object", messageId |-> Str("m5"), id |-> Str("m4")]>>),
      data |-> Undefined]}

\* the payloads: a value that is no record, or a record of these fields
Payloads ==
    {Null, Str("m1"), Arr(<<Str("m1")>>)}
    \cup [t : {"object"},
          messageId : {Undefined, Str("m1"), Str(" m1 "), Str("m2"), Str(""), Num(5)},
          id : {Undefined, Str("m2"), Str("  ")},
          messageIds : {Undefined, Str("m1")}
                           \cup { Arr(a) : a \in SeqsUpTo(ArrayValues, MaxIds) },
          messages : {Undefined} \cup { Arr(a) : a \in SeqsUpTo(MessageNodes, 1) },
          data : DataNodes]

\* asRecord(value): the value if it is an object and no array, else null
AsRecord(value) == IF value.t = "object" THEN value ELSE Null

\* Array.isArray(value)
IsArray(value) == value.t = "array"

\* normalizeMessageId(raw)
NormalizeMessageId(raw) ==
    IF raw.t # "string" THEN Null
    ELSE IF TrimId(raw.s) # "" THEN Str(TrimId(raw.s)) ELSE Null

\* mutant of PushMessageId: the id is added as it was found, untrimmed
PushMessageIdUntrimmed(target, raw) ==
    IF raw.t # "string" \/ TrimId(raw.s) = "" THEN target
    ELSE IF \E i \in 1..Len(target) : target[i] = raw.s THEN target
    ELSE Append(target, raw.s)

\* pushMessageId(target, raw); target is the Set, in insertion order
PushMessageId(target, raw) ==
    LET id == NormalizeMessageId(raw)
    IN  IF id = Null THEN target
        ELSE IF \E i \in 1..Len(target) : target[i] = id.s THEN target
        ELSE Append(target, id.s)

\* for (const value of messageIds) pushMessageId(target, value)
RECURSIVE PushAll(_, _)
PushAll(target, values) ==
    IF values = <<>> THEN target
    ELSE PushAll(PushMessageId(target, Head(values)), Tail(values))

\* for (const message of messages) { messageRec.messageId, messageRec.id }
RECURSIVE PushMessages(_, _)
PushMessages(target, messages) ==
    IF messages = <<>> THEN target
    ELSE IF AsRecord(Head(messages)) = Null
    THEN PushMessages(target, Tail(messages))
    ELSE PushMessages(
             PushMessageId(PushMessageId(target, Head(messages).messageId),
                           Head(messages).id),
             Tail(messages))

\* collectMessageIdsFromNode(target, node)
CollectMessageIdsFromNode(target, node) ==
    IF AsRecord(node) = Null THEN target
    ELSE LET t1 == PushMessageId(PushMessageId(target, node.messageId), node.id)
             t2 == IF IsArray(node.messageIds) THEN PushAll(t1, node.messageIds.a)
                   ELSE t1
         IN  IF IsArray(node.messages) THEN PushMessages(t2, node.messages.a)
             ELSE t2

\* export function extractInboundMessageIds(payload: unknown): string[]
ExtractInboundMessageIds(payload) ==
    LET ids == CollectMessageIdsFromNode(<<>>, payload)
    IN  IF AsRecord(payload) # Null
        THEN Arr(CollectMessageIdsFromNode(ids, payload.data))
        ELSE Arr(ids)

InitIds ==
    /\ fin \in Payloads
    /\ fout = NoValue
    /\ ttlMs = 0
    /\ maxSize = 0
    /\ cache = <<>>
    /\ log = <<>>
    /\ clock = 0
    /\ units = [u \in Units |-> IdleUnit]
    /\ emailClients = {}
    /\ evicted = {}
    /\ rin = NoParams
    /\ rout = NoReply
    /\ penv = NoEnv
    /\ proc = NoProc
    /\ shadow = <<>>
    /\ http = NoHttp
    /\ serve = NoServe
    /\ sms = NoSms
    /\ vapi = NoVapi

\* let messageIds = extractInboundMessageIds(payload)
ExtractIds ==
    /\ fout = NoValue
    /\ fout' = ExtractInboundMessageIds(fin)
    /\ UNCHANGED <<ttlMs, maxSize, cache, log, clock, units, emailClients, evicted,
                   rin, rout, penv, proc, shadow, fin, http, serve,
                sms, vapi>>

NextIds == ExtractIds

SpecIds == InitIds /\ [][NextIds]_vars

---------------------------------------------------------------------------
(* SpecHook: buildDefaultEmailHookUrl or ensureEmailHookUrlAccountId applied
   once to any argument *)

DEFAULT_ACCOUNT_ID == "default"

AccountIds == {"default", "sales", "sales+na", "a b"}

GatewayPorts == {80, 18789}

\* a URL string in its parts: the text before "?" and "#", the query
\* parameters as written, the fragment; abs tells if new URL(...) parses it
\* (a string without scheme and host does not parse)
Url(abs, path, query, frag) ==
    [abs |-> abs, path |-> path, query |-> query, frag |-> frag]

Param(name, value) == [name |-> name, value |-> value]

\* the parameters a configured hook URL may hold
HookParams ==
    {Param("token", "abc"), Param("q", "a%20b"),
     Param("accountId", "other"), Param("accountId", "sales%2Bna")}

HookUrls ==
    { Url(abs, IF abs THEN "http://127.0.0.1:18789/email/inbound" ELSE "/email/inbound",
          query, frag) :
        abs \in BOOLEAN, query \in SeqsUpTo(HookParams, MaxParams), frag \in {"", "top"} }

\* the serializer of URLSearchParams (application/x-www-form-urlencoded)
FormEncode(s) ==
    CASE s = "sales+na" -> "sales%2Bna"
      [] s = "a b" -> "a+b"
      [] OTHER -> s

\* encodeURIComponent
EncodeURIComponent(s) ==
    CASE s = "sales+na" -> "sales%2Bna"
      [] s = "a b" -> "a%20b"
      [] OTHER -> s

\* the value of a query parameter as URLSearchParams parses it
QueryDecode(v) ==
    CASE v = "sales%2Bna" -> "sales+na"
      [] v = "a+b" -> "a b"
      [] v = "a%20b" -> "a b"
      [] OTHER -> v

\* export function buildDefaultEmailHookUrl(gatewayPort, accountId)
BuildDefaultEmailHookUrl(gatewayPort, accountId) ==
    LET base == "http://127.0.0.1:" \o ToString(gatewayPort) \o "/email/inbound"
    IN  IF accountId = DEFAULT_ACCOUNT_ID THEN Url(TRUE, base, <<>>, "")
        ELSE Url(TRUE, base, <<Param("accountId", FormEncode(accountId))>>, "")

\* parsed.searchParams.has("accountId")
HasAccountId(url) == \E i \in 1..Len(url.query) : url.query[i].name = "accountId"

\* the query written again by the serializer of URLSearchParams
Reserialized(query) ==
    [i \in 1..Len(query) |->
        Param(query[i].name, FormEncode(QueryDecode(query[i].value)))]

\* mutant of EnsureParsed: the query is replaced by the accountId parameter
EnsureParsedReplacesQuery(url, accountId) ==
    IF HasAccountId(url) THEN url
    ELSE [url EXCEPT !.query = <<Param("accountId", FormEncode(accountId))>>]

\* the try branch: if (!parsed.searchParams.has("accountId"))
\* parsed.searchParams.set("accountId", accountId); return parsed.toString()
EnsureParsed(url, accountId) ==
    IF HasAccountId(url) THEN url
    ELSE [url EXCEPT !.query =
             Append(Reserialized(url.query), Param("accountId", FormEncode(accountId)))]

\* the catch branch: `${hookUrl}${separator}accountId=${encodeURIComponent(accountId)}`,
\* the text is added at the end of the string: to the fragment if there is
\* one, to the query otherwise
EnsureAppended(url, accountId) ==
    LET separator == IF url.query # <<>> THEN "&" ELSE "?"
        value == EncodeURIComponent(accountId)
    IN  IF url.frag # ""
        THEN [url EXCEPT !.frag = url.frag \o separator \o "accountId=" \o value]
        ELSE [url EXCEPT !.query = Append(url.query, Param("accountId", value))]

\* export function ensureEmailHookUrlAccountId(hookUrl, accountId)
EnsureEmailHookUrlAccountId(hookUrl, accountId) ==
    IF accountId = DEFAULT_ACCOUNT_ID THEN hookUrl
    ELSE IF hookUrl.abs THEN EnsureParsed(hookUrl, accountId)
    ELSE EnsureAppended(hookUrl, accountId)

HookCalls ==
    [fn : {"build"}, gatewayPort : GatewayPorts, accountId : AccountIds]
    \cup [fn : {"ensure"}, hookUrl : HookUrls, accountId : AccountIds]

InitHook ==
    /\ fin \in HookCalls
    /\ fout = NoValue
    /\ ttlMs = 0
    /\ maxSize = 0
    /\ cache = <<>>
    /\ log = <<>>
    /\ clock = 0
    /\ units = [u \in Units |-> IdleUnit]
    /\ emailClients = {}
    /\ evicted = {}
    /\ rin = NoParams
    /\ rout = NoReply
    /\ penv = NoEnv
    /\ proc = NoProc
    /\ shadow = <<>>
    /\ http = NoHttp
    /\ serve = NoServe
    /\ sms = NoSms
    /\ vapi = NoVapi

\* the function is called
HookCall ==
    /\ fout = NoValue
    /\ fout' = IF fin.fn = "build"
               THEN BuildDefaultEmailHookUrl(fin.gatewayPort, fin.accountId)
               ELSE EnsureEmailHookUrlAccountId(fin.hookUrl, fin.accountId)
    /\ UNCHANGED <<ttlMs, maxSize, cache, log, clock, units, emailClients, evicted,
                   rin, rout, penv, proc, shadow, fin, http, serve,
                sms, vapi>>

NextHook == HookCall

SpecHook == InitHook /\ [][NextHook]_vars

---------------------------------------------------------------------------
(* SpecAccounts: the checks of two accounts on recentInboundMessages, next
   to a cache that sees the checks of account "default" only *)

DedupAccounts == {"default", "sales"}

InitAccounts ==
    /\ CreateDedupeCache(RECENT_MESSAGE_TTL_MS, MaxRecent)
    /\ shadow = <<>>
    /\ log = <<>>
    /\ clock = 0
    /\ units = [u \in Units |-> IdleUnit]
    /\ emailClients = {}
    /\ evicted = {}
    /\ rin = NoParams
    /\ rout = NoReply
    /\ penv = NoEnv
    /\ proc = NoProc
    /\ fin = NoValue
    /\ fout = NoValue
    /\ http = NoHttp
    /\ serve = NoServe
    /\ sms = NoSms
    /\ vapi = NoVapi

\* time passes
TickAccounts ==
    /\ clock < MaxTime * TickMs
    /\ clock' = clock + TickMs
    /\ UNCHANGED <<ttlMs, maxSize, cache, log, units, emailClients, evicted, rin, rout,
                   penv, proc, shadow, fin, fout, http, serve,
                sms, vapi>>

\* recentInboundMessages.check(`${accountId}:${messageId}`) for a message of
\* account a; a check of account "default" is also made on shadow, and log
\* keeps what the two returned
CheckAccount(a, m) ==
    LET key == Str(DedupKey(a, m))
    IN  /\ cache' = CheckCache(cache, key, clock)
        /\ IF a = "default"
           THEN /\ shadow' = CheckCache(shadow, key, clock)
                /\ log' = <<[key |-> key.s, ret |-> CheckReturns(cache, key, clock),
                             alone |-> CheckReturns(shadow, key, clock)]>>
           ELSE UNCHANGED <<shadow, log>>
        /\ UNCHANGED <<ttlMs, maxSize, clock, units, emailClients, evicted, rin, rout,
                       penv, proc, fin, fout, http, serve,
                sms, vapi>>

NextAccounts ==
    \/ TickAccounts
    \/ \E a \in DedupAccounts, m \in MsgIds : CheckAccount(a, m)

SpecAccounts == InitAccounts /\ [][NextAccounts]_vars

---------------------------------------------------------------------------
(* SpecRoute: one request to the /email/inbound route of the plugin, from the
   first chunk of its body to the settling of the route handler's promise *)

\* the pieces a request body arrives in
BodyChunks == {"{", "}", "\"messageId\":\"m1\"", "oops"}

\* Buffer.concat(chunks).toString("utf-8")
RECURSIVE ConcatChunks(_)
ConcatChunks(chunks) ==
    IF chunks = <<>> THEN "" ELSE Head(chunks) \o ConcatChunks(Tail(chunks))

\* the texts over BodyChunks that JSON.parse accepts
IsJson(raw) == raw \in {"{}", "{\"messageId\":\"m1\"}"}

\* an object none of whose fields is set
EmptyObject ==
    [t |-> "object", messageId |-> Undefined, id |-> Undefined,
     messageIds |-> Undefined, messages |-> Undefined, data |-> Undefined]

\* JSON.parse(raw), for a text it accepts
JsonParse(raw) ==
    IF raw = "{}" THEN EmptyObject
    ELSE [EmptyObject EXCEPT !.messageId = Str("m1")]

\* url.searchParams.get("accountId") ?? "default"
RouteAccountId(param) == IF param = Null THEN DEFAULT_ACCOUNT_ID ELSE param.s

\* the request: its accountId parameter and the chunks of its body; the
\* response starts unsent, with Node's initial statusCode
RouteRequests ==
    [pc : {"parseBody"}, accountId : {RouteAccountId(q) : q \in {Null, Str("sales")}},
     incoming : SeqsUpTo(BodyChunks, MaxChunks), chunks : {<<>>},
     body : {Undefined}, err : {"none"}, statusCode : {200}, ended : {FALSE}]

InitRoute ==
    /\ http \in RouteRequests
    /\ serve = NoServe
    /\ ttlMs = 0
    /\ maxSize = 0
    /\ cache = <<>>
    /\ log = <<>>
    /\ clock = 0
    /\ units = [u \in Units |-> IdleUnit]
    /\ emailClients = {}
    /\ evicted = {}
    /\ rin = NoParams
    /\ rout = NoReply
    /\ penv = NoEnv
    /\ proc = NoProc
    /\ shadow = <<>>
    /\ fin = NoValue
    /\ fout = NoValue
    /\ sms = NoSms
    /\ vapi = NoVapi

RouteUnchanged ==
    UNCHANGED <<ttlMs, maxSize, cache, log, clock, units, emailClients, evicted,
                rin, rout, penv, proc, shadow, fin, fout, serve,
                sms, vapi>>

\* req.on("data", (chunk) => chunks.push(chunk))
ReqData ==
    /\ http.pc = "parseBody"
    /\ http.incoming # <<>>
    /\ http' = [http EXCEPT !.incoming = Tail(http.incoming),
                            !.chunks = Append(http.chunks, Head(http.incoming))]
    /\ RouteUnchanged

\* req.on("end", ...): resolve(raw ? JSON.parse(raw) : {}), or reject(err);
\* the rejection is thrown by "await parseBody(req)" out of the route handler
ParseBodyEnd(h) ==
    LET raw == ConcatChunks(h.chunks)
    IN  IF raw = "" THEN [h EXCEPT !.pc = "handler", !.body = EmptyObject]
        ELSE IF IsJson(raw) THEN [h EXCEPT !.pc = "handler", !.body = JsonParse(raw)]
        ELSE [h EXCEPT !.pc = "rejected", !.err = "SyntaxError"]

ReqEnd ==
    /\ http.pc = "parseBody"
    /\ http.incoming = <<>>
    /\ http' = ParseBodyEnd(http)
    /\ RouteUnchanged

\* req.on("error", reject)
ReqError ==
    /\ http.pc = "parseBody"
    /\ http' = [http EXCEPT !.pc = "rejected", !.err = "stream error"]
    /\ RouteUnchanged

\* await handler({ body, headers }, ...): the inbound handler answers once,
\* 200 when the body names no message, else 200 or 500 as its collaborators
\* make it; res.statusCode = code, res.end(JSON.stringify(data))
HandlerResponds ==
    /\ http.pc = "handler"
    /\ \E code \in {200, 500} :
          /\ ExtractInboundMessageIds(http.body).a = <<>> => code = 200
          /\ http' = [http EXCEPT !.pc = "resolved", !.statusCode = code,
                                  !.ended = TRUE]
    /\ RouteUnchanged

NextRoute == ReqData \/ ReqEnd \/ ReqError \/ HandlerResponds

SpecRoute == InitRoute /\ [][NextRoute]_vars

---------------------------------------------------------------------------
(* SpecWatch: the hook URL monitorEmailProvider hands to the watcher of an
   account, and the account the /email/inbound route reads from it *)

\* account.config.hookUrl: not set, or any of the hook URLs
ConfiguredHookUrls == {Undefined} \cup HookUrls

WatchInputs ==
    [fn : {"watch"}, gatewayPort : GatewayPorts, accountId : AccountIds,
     hookUrl : ConfiguredHookUrls]

\* searchParams.get(name) without the decoding of the value
SearchParamsGetRaw(url, name) ==
    IF \E i \in 1..Len(url.query) : url.query[i].name = name
    THEN LET i == CHOOSE i \in 1..Len(url.query) :
                    /\ url.query[i].name = name
                    /\ \A j \in 1..(i - 1) : url.query[j].name # name
         IN  Str(url.query[i].value)
    ELSE Null

\* new URL(req.url, "http://localhost").searchParams.get(name): the decoded
\* value of the first parameter of that name in the query, or null; a
\* fragment is no part of the request
SearchParamsGet(url, name) ==
    IF \E i \in 1..Len(url.query) : url.query[i].name = name
    THEN LET i == CHOOSE i \in 1..Len(url.query) :
                    /\ url.query[i].name = name
                    /\ \A j \in 1..(i - 1) : url.query[j].name # name
         IN  Str(QueryDecode(url.query[i].value))
    ELSE Null

InitWatch ==
    /\ fin \in WatchInputs
    /\ fout = NoValue
    /\ ttlMs = 0
    /\ maxSize = 0
    /\ cache = <<>>
    /\ log = <<>>
    /\ clock = 0
    /\ units = [u \in Units |-> IdleUnit]
    /\ emailClients = {}
    /\ evicted = {}
    /\ rin = NoParams
    /\ rout = NoReply
    /\ penv = NoEnv
    /\ proc = NoProc
    /\ shadow = <<>>
    /\ http = NoHttp
    /\ serve = NoServe
    /\ sms = NoSms
    /\ vapi = NoVapi

WatchUnchanged ==
    UNCHANGED <<ttlMs, maxSize, cache, log, clock, units, emailClients, evicted,
                rin, rout, penv, proc, shadow, fin, http, serve, sms, vapi>>

\* const hookUrl = ensureEmailHookUrlAccountId(account.config.hookUrl ??
\* buildDefaultEmailHookUrl(gatewayPort, account.accountId), account.accountId)
MonitorHookUrl ==
    /\ fout = NoValue
    /\ fout' = [t |-> "watch",
                hookUrl |-> EnsureEmailHookUrlAccountId(
                                IF fin.hookUrl = Undefined
                                THEN BuildDefaultEmailHookUrl(fin.gatewayPort, fin.accountId)
                                ELSE fin.hookUrl,
                                fin.accountId),
                again |-> NoValue, routed |-> NoValue]
    /\ WatchUnchanged

\* ensureEmailHookUrlAccountId applied to its own result
EnsureAgain ==
    /\ fout # NoValue
    /\ fout.again = NoValue
    /\ fout' = [fout EXCEPT !.again =
                   [t |-> "url",
                    url |-> EnsureEmailHookUrlAccountId(fout.hookUrl, fin.accountId)]]
    /\ WatchUnchanged

\* the watcher posts to the hook URL; the route reads the account of the request
RouteReceives ==
    /\ fout # NoValue
    /\ fout.routed = NoValue
    /\ fout' = [fout EXCEPT !.routed =
                   Str(RouteAccountId(SearchParamsGet(fout.hookUrl, "accountId")))]
    /\ WatchUnchanged

NextWatch == MonitorHookUrl \/ EnsureAgain \/ RouteReceives

SpecWatch == InitWatch /\ [][NextWatch]_vars

---------------------------------------------------------------------------
(* SpecServe: monitorEmailProvider of one account after emailClients.set: in
   Pub/Sub mode the watcher child, the restart timer and the renewal
   interval, in polling mode the poll timer, and cleanup *)

\* setTimeout(..., 5000)
RESTART_DELAY_MS == 5000

\* the time of SpecServe advances in steps of half the restart delay
ServeTickMs == RESTART_DELAY_MS \div 2

\* what a chunk of the child's stderr is: a line ADDRESS_IN_USE_RE matches,
\* another line, or white space only
StderrKinds == {"address in use", "other", "blank"}

\* "if (topic && pushToken)": Pub/Sub mode, else polling mode
ServeModes == {"pubsub", "poll"}

\* the monitor after emailClients.set(...), with no child, timer or interval
\* yet; alive counts the children spawned that have not exited, disconnects
\* the reports of connected: false, polls the runs of runPoll, cleanups the
\* calls of cleanup
StartServe ==
    [pc |-> "start", shuttingDown |-> FALSE, watcherProcess |-> FALSE,
     renewInterval |-> FALSE, child |-> "none", addressInUse |-> FALSE,
     timer |-> -1, lastError |-> "null", connected |-> TRUE, exits |-> 0,
     lastExit |-> "none", mode |-> "pubsub", pollTimer |-> FALSE, alive |-> 0,
     disconnects |-> 0, polls |-> 0, cleanups |-> 0]

InitServe ==
    /\ serve \in {[StartServe EXCEPT !.mode = m] : m \in ServeModes}
    /\ emailClients = {DEFAULT_ACCOUNT_ID}
    /\ http = NoHttp
    /\ ttlMs = 0
    /\ maxSize = 0
    /\ cache = <<>>
    /\ log = <<>>
    /\ clock = 0
    /\ units = [u \in Units |-> IdleUnit]
    /\ evicted = {}
    /\ rin = NoParams
    /\ rout = NoReply
    /\ penv = NoEnv
    /\ proc = NoProc
    /\ shadow = <<>>
    /\ fin = NoValue
    /\ fout = NoValue
    /\ sms = NoSms
    /\ vapi = NoVapi

ServeUnchanged ==
    UNCHANGED <<ttlMs, maxSize, cache, log, clock, units, evicted, rin, rout,
                penv, proc, shadow, fin, fout, http,
                sms, vapi>>

\* spawnServe(): a new child, with its own addressInUse = false
SpawnServe(sv) ==
    [sv EXCEPT !.watcherProcess = TRUE, !.child = "running", !.addressInUse = FALSE,
               !.alive = @ + 1]

\* runWatchStart("initial"); watcherProcess = spawnServe(); renewInterval =
\* setInterval(...); then the monitor waits for the abort signal
StartWatch(ok) ==
    /\ serve.pc = "start"
    /\ serve.mode = "pubsub"
    /\ serve' = [SpawnServe(serve) EXCEPT
                    !.pc = "waitForAbort", !.renewInterval = TRUE,
                    !.lastError = IF ok THEN "null" ELSE "watch initial failed"]
    /\ UNCHANGED emailClients
    /\ ServeUnchanged

\* the interval callback: runWatchStart("renewal")
RenewFires(ok) ==
    /\ serve.renewInterval
    /\ serve' = IF serve.shuttingDown \/ ok THEN serve
                ELSE [serve EXCEPT !.lastError = "watch renewal failed"]
    /\ UNCHANGED emailClients
    /\ ServeUnchanged

\* child.stderr.on("data", ...)
StderrData(kind) ==
    /\ serve.child = "running"
    /\ serve' = IF kind = "address in use"
                THEN [serve EXCEPT !.addressInUse = TRUE]
                ELSE serve
    /\ UNCHANGED emailClients
    /\ ServeUnchanged

\* child.on("error", ...): logged and reported; an exit event may follow or not
ChildError ==
    /\ serve.child = "running"
    /\ serve' = [serve EXCEPT !.child = "errored", !.lastError = "gog process error"]
    /\ UNCHANGED emailClients
    /\ ServeUnchanged

\* mutant of ExitHandler: a bind conflict is restarted like any other exit
ExitHandlerAlwaysRestarts(sv) ==
    IF sv.shuttingDown THEN [sv EXCEPT !.lastExit = "shutdown"]
    ELSE [sv EXCEPT !.watcherProcess = FALSE, !.timer = RESTART_DELAY_MS,
                    !.lastExit = IF sv.addressInUse THEN "bind" ELSE "transient"]

\* child.on("exit", ...)
ExitHandler(sv) ==
    IF sv.shuttingDown THEN [sv EXCEPT !.lastExit = "shutdown"]
    ELSE IF sv.addressInUse
    THEN [sv EXCEPT !.watcherProcess = FALSE, !.lastExit = "bind",
                    !.lastError = "gog serve failed to bind"]
    ELSE [sv EXCEPT !.watcherProcess = FALSE, !.timer = RESTART_DELAY_MS,
                    !.lastExit = "transient"]

\* the child exits, by itself or killed by cleanup
ChildExit ==
    /\ serve.child \in {"running", "errored"}
    /\ serve.exits < MaxExits
    /\ serve' = [ExitHandler(serve) EXCEPT !.child = "exited",
                                           !.exits = serve.exits + 1,
                                           !.alive = @ - 1]
    /\ UNCHANGED emailClients
    /\ ServeUnchanged

\* time passes while the restart timer is pending
TimePasses ==
    /\ serve.timer > 0
    /\ serve' = [serve EXCEPT !.timer = IF serve.timer > ServeTickMs
                                        THEN serve.timer - ServeTickMs ELSE 0]
    /\ UNCHANGED emailClients
    /\ ServeUnchanged

\* a restart timer that spawns whatever shuttingDown says
RestartTimerSpawns(sv) == [SpawnServe(sv) EXCEPT !.timer = -1]

\* the timer callback: if (shuttingDown) return; watcherProcess = spawnServe()
RestartTimer(sv) ==
    IF sv.shuttingDown THEN [sv EXCEPT !.timer = -1]
    ELSE [SpawnServe(sv) EXCEPT !.timer = -1]

RestartTimerFires ==
    /\ serve.timer = 0
    /\ serve' = RestartTimer(serve)
    /\ UNCHANGED emailClients
    /\ ServeUnchanged

\* polling mode: statusSink({lastError: null}); await runPoll();
\* pollTimer = setInterval(...); then the monitor waits for the abort signal
StartPolling ==
    /\ serve.pc = "start"
    /\ serve.mode = "poll"
    /\ serve' = [serve EXCEPT !.pc = "waitForAbort", !.pollTimer = TRUE,
                              !.polls = 1, !.lastError = "null"]
    /\ UNCHANGED emailClients
    /\ ServeUnchanged

\* the interval callback: if (shuttingDown) return; runPoll()
PollTimerFires ==
    /\ serve.pollTimer
    /\ serve.polls < MaxPolls
    /\ serve' = IF serve.shuttingDown THEN serve
                ELSE [serve EXCEPT !.polls = @ + 1]
    /\ UNCHANGED emailClients
    /\ ServeUnchanged

\* cleanup(): in polling mode patchedCleanup, clearInterval(pollTimer) first
CleanupServe(sv) ==
    IF sv.shuttingDown THEN [sv EXCEPT !.pollTimer = FALSE]
    ELSE [sv EXCEPT !.pollTimer = FALSE, !.shuttingDown = TRUE,
                    !.renewInterval = FALSE, !.watcherProcess = FALSE,
                    !.connected = FALSE, !.disconnects = @ + 1]

\* the abort signal fires: finally { cleanup() }
Abort ==
    /\ serve.pc = "waitForAbort"
    /\ serve' = [CleanupServe(serve) EXCEPT !.pc = "stopped", !.cleanups = 1]
    /\ emailClients' = emailClients \ {DEFAULT_ACCOUNT_ID}
    /\ ServeUnchanged

\* cleanup is called once more
CleanupAgain ==
    /\ serve.pc = "stopped"
    /\ serve.cleanups < MaxCleanups
    /\ serve' = [CleanupServe(serve) EXCEPT !.cleanups = @ + 1]
    /\ emailClients' = IF serve.shuttingDown THEN emailClients
                       ELSE emailClients \ {DEFAULT_ACCOUNT_ID}
    /\ ServeUnchanged

NextServe ==
    \/ \E ok \in BOOLEAN : StartWatch(ok)
    \/ \E ok \in BOOLEAN : RenewFires(ok)
    \/ \E kind \in StderrKinds : StderrData(kind)
    \/ ChildError
    \/ ChildExit
    \/ TimePasses
    \/ RestartTimerFires
    \/ StartPolling
    \/ PollTimerFires
    \/ Abort
    \/ CleanupAgain

SpecServe == InitServe /\ [][NextServe]_vars

\* the event loop runs a timer that is due, and time does not stand still
SpecServeFair ==
    SpecServe /\ WF_vars(TimePasses) /\ WF_vars(RestartTimerFires)

---------------------------------------------------------------------------
(* SpecSms: one request to POST /sms/inbound of the SMS plugin, whose webhook
   service runs (account_sid, auth_token and phone_number are configured) *)

\* config.auth_token
SmsAuthToken == "tok"

\* createHmac("sha1", authToken).update(data).digest("base64")
Hmac(authToken, data) == "hmac(" \o authToken \o "," \o data \o ")"

\* url + the params, keys sorted, as key + value; the string fields of the
\* body are Body, From, MessageSid and To
SignedData(url, body) ==
    url \o "Body" \o body.Body \o "From" \o body.From
        \o "MessageSid" \o body.MessageSid \o "To" \o body.To

\* validateTwilioSignature(authToken, signature, url, params)
ValidateTwilioSignature(authToken, signature, url, body) ==
    Hmac(authToken, SignedData(url, body)) = signature

\* config.webhook_url.replace(/\/+$/, "")
StripSlashes(url) ==
    CASE url = "https://pub/" -> "https://pub"
      [] url = "https://pub//" -> "https://pub"
      [] OTHER -> url

\* the URL the handler reconstructs: webhook_url, else the x-forwarded-*
\* headers, else the local request
WebhookUrl(req) ==
    IF ~Falsy(req.webhook_url)
    THEN StripSlashes(req.webhook_url.s) \o req.url
    ELSE (IF Falsy(req.xfProto) THEN req.protocol ELSE req.xfProto.s)
             \o "://"
             \o (IF Falsy(req.xfHost) THEN req.hostname ELSE req.xfHost.s)
             \o req.url

\* the bodies Twilio or anyone else posts
SmsBodies ==
    [MessageSid : {"SM1"}, From : {"+1555", "+1666"}, To : {"+1777"},
     Body : {"", "hi"}]

\* the URL Twilio signs: the public address of the endpoint
PublicUrl == "https://pub/sms/inbound"

\* the x-twilio-signature header: absent, empty, Twilio's, one made with
\* another token, or anything else
Signatures(body) ==
    {Undefined, Str(""), Str("forged"),
     Str(Hmac(SmsAuthToken, SignedData(PublicUrl, body))),
     Str(Hmac("guess", SignedData(PublicUrl, body)))}

SmsRequests ==
    { [pc |-> "inbound", body |-> b, signature |-> sig, url |-> "/sms/inbound",
       protocol |-> "http", hostname |-> "local", webhook_url |-> w,
       xfProto |-> xp, xfHost |-> xh, status |-> 0, validated |-> FALSE,
       routed |-> FALSE, sent |-> <<>>] :
        b \in SmsBodies, w \in {Undefined, Str("https://pub/")},
        xp \in {Undefined, Str("https")}, xh \in {Undefined, Str("pub")},
        sig \in UNION { Signatures(bb) : bb \in SmsBodies } }

InitSms ==
    /\ sms \in SmsRequests
    /\ vapi = NoVapi
    /\ http = NoHttp
    /\ serve = NoServe
    /\ ttlMs = 0
    /\ maxSize = 0
    /\ cache = <<>>
    /\ log = <<>>
    /\ clock = 0
    /\ units = [u \in Units |-> IdleUnit]
    /\ emailClients = {}
    /\ evicted = {}
    /\ rin = NoParams
    /\ rout = NoReply
    /\ penv = NoEnv
    /\ proc = NoProc
    /\ shadow = <<>>
    /\ fin = NoValue
    /\ fout = NoValue

SmsUnchanged ==
    UNCHANGED <<ttlMs, maxSize, cache, log, clock, units, emailClients, evicted,
                rin, rout, penv, proc, shadow, fin, fout, http, serve, vapi>>

\* "if (signature && config.auth_token)": is the signature looked at
SignatureChecked(req) == ~Falsy(req.signature) /\ SmsAuthToken # ""

\* the handler up to "await dispatchReplyFromConfig": 403 on a signature that
\* does not validate, else the empty TwiML and the hand-over to the agent
SmsInbound ==
    /\ sms.pc = "inbound"
    /\ sms' =
         IF /\ SignatureChecked(sms)
            /\ ~ValidateTwilioSignature(SmsAuthToken, sms.signature.s,
                                        WebhookUrl(sms), sms.body)
         THEN [sms EXCEPT !.pc = "done", !.status = 403]
         ELSE [sms EXCEPT !.pc = "dispatch", !.status = 200,
                          !.validated = SignatureChecked(sms), !.routed = TRUE]
    /\ SmsUnchanged

\* deliver(payload): outbound.sendSms(from, replyText) for a non-empty text
SmsDeliver(replyText) ==
    /\ sms.pc = "dispatch"
    /\ Len(sms.sent) < MaxReplies
    /\ sms' = IF replyText = "" THEN sms
              ELSE [sms EXCEPT !.sent = Append(sms.sent, [to |-> sms.body.From,
                                                          text |-> replyText])]
    /\ SmsUnchanged

\* dispatchReplyFromConfig resolved; markDispatchIdle()
SmsDispatchReturns ==
    /\ sms.pc = "dispatch"
    /\ sms' = [sms EXCEPT !.pc = "done"]
    /\ SmsUnchanged

\* the dispatch threw: the best-effort error reply
SmsDispatchThrows ==
    /\ sms.pc = "dispatch"
    /\ sms' = [sms EXCEPT !.pc = "done",
                          !.sent = Append(sms.sent, [to |-> sms.body.From,
                                                     text |-> "Sorry, something went wrong. Please try again."])]
    /\ SmsUnchanged

NextSms ==
    \/ SmsInbound
    \/ \E replyText \in {"", "ok"} : SmsDeliver(replyText)
    \/ SmsDispatchReturns
    \/ SmsDispatchThrows

SpecSms == InitSms /\ [][NextSms]_vars

---------------------------------------------------------------------------
(* SpecVapi: the OutboundManager of the voice plugin and the turns VAPI posts
   to /chat/completions *)

\* the ids VAPI gives to calls
CallIds == {"c1", "c2"}

\* "call?.id || randomUUID()": the id of a request that names no call
RandomUuid == "uuid"

\* the context argument of call(); "" reads as none given
Contexts == {"", "ask about the invoice", "confirm the meeting"}

\* to.replace(/[^+0-9]/g, "")
CleanNumber(to) ==
    CASE to = "+1 (555)" -> "+1555"
      [] OTHER -> to

NoContext == [t |-> "undefined"]

\* this.contexts.has(callId)
HasContext(contexts, callId) == contexts[callId] # NoContext

\* a consumeContext that leaves the entry in the map
ConsumeContextKeeps(contexts, callId) ==
    [ret |-> contexts[callId], contexts |-> contexts]

\* consumeContext(callId): the stored context, deleted from the map
ConsumeContext(contexts, callId) ==
    [ret |-> contexts[callId],
     contexts |-> IF contexts[callId] # NoContext
                  THEN [contexts EXCEPT ![callId] = NoContext]
                  ELSE contexts]

\* the text put into UntrustedContext
SystemContext(outboundCtx) ==
    "This is an outbound call you initiated to " \o outboundCtx.calleeNumber
        \o ". Context: " \o outboundCtx.context

IdleTurn == [pc |-> "idle", systemContext |-> Undefined]

StartVapi ==
    [pc |-> "serving",
     contexts |-> [c \in CallIds \cup {RandomUuid} |-> NoContext],
     turn |-> [c \in CallIds \cup {RandomUuid} |-> IdleTurn],
     stored |-> [c \in CallIds \cup {RandomUuid} |-> 0],
     injected |-> [c \in CallIds \cup {RandomUuid} |-> 0],
     calls |-> 0, turns |-> 0,
     last |-> [op |-> "none", callId |-> RandomUuid, ret |-> NoContext]]

InitVapi ==
    /\ vapi = StartVapi
    /\ sms = NoSms
    /\ http = NoHttp
    /\ serve = NoServe
    /\ ttlMs = 0
    /\ maxSize = 0
    /\ cache = <<>>
    /\ log = <<>>
    /\ clock = 0
    /\ units = [u \in Units |-> IdleUnit]
    /\ emailClients = {}
    /\ evicted = {}
    /\ rin = NoParams
    /\ rout = NoReply
    /\ penv = NoEnv
    /\ proc = NoProc
    /\ shadow = <<>>
    /\ fin = NoValue
    /\ fout = NoValue

VapiUnchanged ==
    UNCHANGED <<ttlMs, maxSize, cache, log, clock, units, emailClients, evicted,
                rin, rout, penv, proc, shadow, fin, fout, http, serve, sms>>

\* OutboundManager.call(to, greeting, context) answered by VAPI with call id
\* callId: the context, if one was given, is stored under that id
OutboundCall(callId, to, context) ==
    /\ vapi.calls < MaxCalls
    /\ vapi' =
         IF context # ""
         THEN [vapi EXCEPT
                 !.contexts[callId] = [context |-> context,
                                       calleeNumber |-> CleanNumber(to)],
                 !.stored[callId] = @ + 1,
                 !.calls = @ + 1,
                 !.last = [op |-> "store", callId |-> callId, ret |-> NoContext]]
         ELSE [vapi EXCEPT
                 !.calls = @ + 1,
                 !.last = [op |-> "call", callId |-> callId, ret |-> NoContext]]
    /\ VapiUnchanged

\* POST /chat/completions without a user message: the greeting
GreetingTurn(callId) ==
    /\ vapi.turns < MaxTurns
    /\ vapi.turn[callId].pc = "idle"
    /\ vapi' = [vapi EXCEPT
                  !.turns = @ + 1,
                  !.last = [op |-> "greeting", callId |-> callId, ret |-> NoContext]]
    /\ VapiUnchanged

\* POST /chat/completions with a user message, up to the hand-over to the
\* agent: the context is consumed, then the route and the message context are
\* built (routeThrows: one of them threw, the catch ends the stream)
UserTurn(callId, routeThrows) ==
    /\ vapi.turns < MaxTurns
    /\ vapi.turn[callId].pc = "idle"
    /\ LET c == ConsumeContext(vapi.contexts, callId)
           systemContext == IF c.ret # NoContext THEN Str(SystemContext(c.ret))
                            ELSE Undefined
       IN vapi' = [vapi EXCEPT
                     !.contexts = c.contexts,
                     !.turns = @ + 1,
                     !.turn[callId] =
                         IF routeThrows THEN IdleTurn
                         ELSE [pc |-> "dispatch", systemContext |-> systemContext],
                     !.injected[callId] =
                         IF ~routeThrows /\ ~Falsy(systemContext) THEN @ + 1 ELSE @,
                     !.last = [op |-> IF routeThrows THEN "route threw" ELSE "dispatch",
                               callId |-> callId, ret |-> c.ret]]
    /\ VapiUnchanged

\* dispatchReplyFromConfig settled, resolved or rejected: the stream is ended
DispatchSettles(callId) ==
    /\ vapi.turn[callId].pc = "dispatch"
    /\ vapi' = [vapi EXCEPT !.turn[callId] = IdleTurn]
    /\ VapiUnchanged

NextVapi ==
    \/ \E callId \in CallIds, to \in {"+1 (555)", "+1666"}, context \in Contexts :
           OutboundCall(callId, to, context)
    \/ \E callId \in CallIds \cup {RandomUuid} : GreetingTurn(callId)
    \/ \E callId \in CallIds \cup {RandomUuid}, routeThrows \in BOOLEAN :
           UserTurn(callId, routeThrows)
    \/ \E callId \in CallIds \cup {RandomUuid} : DispatchSettles(callId)

SpecVapi == InitVapi /\ [][NextVapi]_vars

---------------------------------------------------------------------------
(* Claims about the dedupe cache, checked under SpecCache *)

Last(l) == l[Len(l)]

\* calls i and i+1 of the log: the same key K at times t1 < t2, nothing between
SameKeyPair(i) ==
    /\ i \in 1..(Len(log) - 1)
    /\ log[i].key = log[i + 1].key
    /\ log[i].now < log[i + 1].now

\* C1 as stated: for all keys K and times t1 < t2 with t2 - t1 < ttlMs,
\* check(K, t1) directly followed by check(K, t2) makes the second call
\* return true.
C1_AsStated ==
    \A i \in 1..(Len(log) - 1) :
        (SameKeyPair(i) /\ log[i + 1].now - log[i].now < ttlMs)
            => log[i + 1].ret

\* C1 amended: the same, for a non-empty key K and a cache built with
\* maxSize >= 1 (an empty or absent key is never recorded, and with
\* maxSize = 0 the entry is evicted by the very call that records it).
C1_DuplicateInWindow ==
    \A i \in 1..(Len(log) - 1) :
        (/\ SameKeyPair(i)
         /\ log[i + 1].now - log[i].now < ttlMs
         /\ ~Falsy(log[i].key)
         /\ maxSize >= 1)
            => log[i + 1].ret

C1_Witness ==
    \E i \in 1..(Len(log) - 1) :
        /\ SameKeyPair(i)
        /\ log[i + 1].now - log[i].now < ttlMs
        /\ ~Falsy(log[i].key)
        /\ maxSize >= 1
        /\ ~log[i].ret
        /\ log[i + 1].ret

\* C2 as stated: for all keys K and times t1 < t2 with t2 - t1 >= ttlMs,
\* check(K, t1) followed by check(K, t2) makes the second call return false,
\* for every configured ttlMs.
C2_AsStated ==
    \A i \in 1..(Len(log) - 1) :
        (SameKeyPair(i) /\ log[i + 1].now - log[i].now >= ttlMs)
            => ~log[i + 1].ret

\* C2 amended: the same for every configured ttlMs > 0 (ttlMs = 0 disables
\* expiry, so the second call returns true).
C2_Expiry ==
    \A i \in 1..(Len(log) - 1) :
        (/\ SameKeyPair(i)
         /\ log[i + 1].now - log[i].now >= ttlMs
         /\ ttlMs > 0)
            => ~log[i + 1].ret

\* the second call found the entry recorded by the first, and it had expired
C2_Witness ==
    \E i \in 1..(Len(log) - 1) :
        /\ SameKeyPair(i)
        /\ log[i + 1].now - log[i].now >= ttlMs
        /\ ttlMs > 0
        /\ maxSize >= 1
        /\ ~Falsy(log[i].key)
        /\ ~log[i + 1].ret
        /\ CacheGet(cache, log[i + 1].key.s) = log[i + 1].now

\* C5: check with an empty or absent key ("", null, undefined) returns false
\* and leaves the store as it was: same entries, timestamps, order and size.
C5_NoKeyNoEffect ==
    [][CheckNoKey => (cache' = cache /\ ~Last(log').ret /\ Falsy(Last(log').key))]_vars

\* a call without key was made on a store that holds entries
C5_Witness ==
    /\ log # <<>>
    /\ Falsy(Last(log).key)
    /\ ~Last(log).ret
    /\ cache # <<>>

\* the last n calls of the log
LastCalls(n) == SubSeq(log, Len(log) - n + 1, Len(log))

\* n distinct non-empty keys inserted at strictly increasing times, the last
\* within ttlMs of the first
InsertRun(r) ==
    /\ \A i \in 1..Len(r) : ~Falsy(r[i].key)
    /\ \A i, j \in 1..Len(r) : i < j => r[i].key # r[j].key /\ r[i].now < r[j].now
    /\ (ttlMs = 0 \/ r[Len(r)].now - r[1].now < ttlMs)

\* C6: after inserting maxSize + 1 distinct keys at increasing times, all
\* within the TTL, the store no longer holds the first-inserted key and holds
\* exactly the most recent maxSize keys.
C6_SizeEviction ==
    (Len(log) >= maxSize + 1 /\ InsertRun(LastCalls(maxSize + 1)))
        => LET r == LastCalls(maxSize + 1)
           IN  /\ ~CacheHas(cache, r[1].key.s)
               /\ CacheKeySet(cache) = { r[i].key.s : i \in 2..Len(r) }
               /\ Len(cache) = maxSize

C6_Witness ==
    /\ maxSize >= 1
    /\ Len(log) >= maxSize + 1
    /\ InsertRun(LastCalls(maxSize + 1))
    /\ \A i \in 1..(maxSize + 1) : ~LastCalls(maxSize + 1)[i].ret
    /\ Len(cache) = maxSize

---------------------------------------------------------------------------
(* Claims about resolveReplyRecipients, checked under SpecReply *)

\* addr occurs in list l, letter case ignored
InListCI(addr, l) == \E i \in 1..Len(l) : ToLowerCase(l[i]) = ToLowerCase(addr)

\* how often addr occurs in list l, letter case ignored
RECURSIVE CountCI(_, _)
CountCI(addr, l) ==
    IF l = <<>> THEN 0
    ELSE (IF ToLowerCase(Head(l)) = ToLowerCase(addr) THEN 1 ELSE 0)
            + CountCI(addr, Tail(l))

\* list l without the addresses equal to a or to b, letter case ignored
RECURSIVE Without(_, _, _)
Without(l, a, b) ==
    IF l = <<>> THEN <<>>
    ELSE IF ToLowerCase(Head(l)) \in {ToLowerCase(a), ToLowerCase(b)}
         THEN Without(Tail(l), a, b)
         ELSE <<Head(l)>> \o Without(Tail(l), a, b)

\* C7: to = [originalFrom], exactly one element, for every input.
C7_ToIsSender ==
    rout.done => rout.to = <<rin.originalFrom>>

\* the bot was addressed in Cc only, with other To recipients present
C7_Witness ==
    /\ rout.done
    /\ ~BotInTo(rin)
    /\ InListCI(rin.botEmail, rin.originalCc)
    /\ \E i \in 1..Len(rin.originalTo) : KeepAddr(rin, rin.originalTo[i])
    /\ rout.to = <<rin.originalFrom>>

\* C8: cc = [] when preserveCc is false; when preserveCc is true, cc is
\* originalTo followed by originalCc without the addresses equal to botEmail or
\* to originalFrom (letter case ignored), order kept, other repeated addresses
\* kept; the same whether the bot is in originalTo or only in originalCc.
C8_CcPreserved ==
    rout.done =>
        rout.cc = IF rin.preserveCc
                  THEN Without(rin.originalTo \o rin.originalCc,
                               rin.botEmail, rin.originalFrom)
                  ELSE <<>>

\* the bot is only in Cc and a third party is in both To and Cc: it stays twice
C8_Witness ==
    /\ rout.done
    /\ rin.preserveCc
    /\ ~BotInTo(rin)
    /\ InListCI(rin.botEmail, rin.originalCc)
    /\ rout.cc = <<"carol@x.com", "carol@x.com">>

\* C9 as stated: the bot's own address (letter case ignored) never appears in
\* to or in cc, for any input.
C9_AsStated ==
    rout.done =>
        /\ ~InListCI(rin.botEmail, rout.to)
        /\ ~InListCI(rin.botEmail, rout.cc)

\* C9 amended: the bot's own address never appears in cc, and it appears in to
\* only when originalFrom is itself the bot's address (to is always
\* [originalFrom]).
C9_BotExcluded ==
    rout.done =>
        /\ ~InListCI(rin.botEmail, rout.cc)
        /\ (InListCI(rin.botEmail, rout.to)
               => ToLowerCase(rin.originalFrom) = ToLowerCase(rin.botEmail))

\* the bot's address, in another letter case, was among the recipients
C9_Witness ==
    /\ rout.done
    /\ rin.preserveCc
    /\ ToLowerCase(rin.originalFrom) # ToLowerCase(rin.botEmail)
    /\ \E i \in 1..Len(rin.originalCc) :
          /\ rin.originalCc[i] # rin.botEmail
          /\ ToLowerCase(rin.originalCc[i]) = ToLowerCase(rin.botEmail)
    /\ rout.cc # <<>>
    /\ ~InListCI(rin.botEmail, rout.cc)

\* C10: no element of cc equals originalFrom (letter case ignored), so the
\* sender occurs exactly once over to ++ cc.
C10_SenderOnce ==
    rout.done =>
        /\ ~InListCI(rin.originalFrom, rout.cc)
        /\ CountCI(rin.originalFrom, rout.to \o rout.cc) = 1

\* the sender was also among the original recipients, in another letter case
C10_Witness ==
    /\ rout.done
    /\ rin.preserveCc
    /\ \E i \in 1..Len(rin.originalTo) :
          /\ rin.originalTo[i] # rin.originalFrom
          /\ ToLowerCase(rin.originalTo[i]) = ToLowerCase(rin.originalFrom)
    /\ rout.cc # <<>>
    /\ CountCI(rin.originalFrom, rout.to \o rout.cc) = 1

---------------------------------------------------------------------------
(* Claims about webhook and poll units over recentInboundMessages, checked
   under Spec *)

\* unit u runs the filter over its ids in this step
FilterStep(u) == units[u].checkedAt = -1 /\ units'[u].checkedAt # -1

\* the ids for which the filter of the unit obtained check = false
Obtained(r) == { r.pending[i] : i \in 1..Len(r.pending) }

\* r is a webhook unit whose payload carried message id m
Delivered(r, m) ==
    /\ r.kind = "webhook"
    /\ ~r.hist
    /\ \E i \in 1..Len(r.ids) : r.ids[i] = m

\* u1 checked message m of its payload, obtained false and handed it to
\* processInboundEmail, less than the TTL ago; u2, of the same account and
\* with a payload of m alone, runs its filter in this step
SecondDelivery(u1, u2, m) ==
    /\ u1 # u2
    /\ Delivered(units[u1], m)
    /\ m \in units[u1].handed
    /\ clock - units[u1].checkedAt < ttlMs
    /\ Delivered(units[u2], m)
    /\ units[u2].ids = <<m>>
    /\ units[u2].acct = units[u1].acct
    /\ FilterStep(u2)

\* C3 as stated: when message m of one account is delivered by webhook to u1
\* and, within the TTL of u1's check, again to u2, u2 does not hand m to
\* processInboundEmail and answers 200 "duplicate".
C3_AsStated ==
    [][\A u1, u2 \in Units, m \in MsgIds :
          SecondDelivery(u1, u2, m)
              => /\ units'[u2].handed = {}
                 /\ units'[u2].resp = "200 duplicate"]_vars

\* C3 amended: the same, provided the size loop of prune has not evicted the
\* key of m since it was recorded (more than RECENT_MESSAGE_MAX newer keys).
C3_DuplicateDelivery ==
    [][\A u1, u2 \in Units, m \in MsgIds :
          (SecondDelivery(u1, u2, m)
             /\ DedupKey(units[u2].acct, m) \notin evicted)
              => /\ units'[u2].handed = {}
                 /\ units'[u2].resp = "200 duplicate"]_vars

\* u1 handed m on, and u2, checking at a later time within the TTL, answered
\* 200 "duplicate" without handing anything on
C3_Witness ==
    \E u1, u2 \in Units, m \in MsgIds :
        /\ u1 # u2
        /\ Delivered(units[u1], m)
        /\ units[u1].ids = <<m>>
        /\ m \in units[u1].handed
        /\ Delivered(units[u2], m)
        /\ units[u2].ids = <<m>>
        /\ units[u2].acct = units[u1].acct
        /\ units[u2].checkedAt > units[u1].checkedAt
        /\ units[u2].checkedAt - units[u1].checkedAt < ttlMs
        /\ units[u2].resp = "200 duplicate"
        /\ units[u2].handed = {}

\* the first position of m in ids
FirstIndex(ids, m) == CHOOSE i \in 1..Len(ids) :
    ids[i] = m /\ \A j \in 1..(i - 1) : ids[j] # m

\* in the filter unit u runs in this step, the key of m is one the size loop
\* of prune has evicted (before the step or by an earlier id of the same
\* filter) when the filter comes to check it
EvictedAtCheck(u, m) ==
    LET ids == units'[u].ids
        acct == units'[u].acct
        before == SubSeq(ids, 1, FirstIndex(ids, m) - 1)
        st == FilterNew([cache |-> cache, pending |-> <<>>, evicted |-> evicted],
                        acct, before, clock)
    IN  DedupKey(acct, m) \in st.evicted

\* unit u obtains false for m in this step while unit v of the same account
\* obtained false for m less than the TTL ago
BothObtain(u, v, m) ==
    /\ u # v
    /\ FilterStep(u)
    /\ m \in Obtained(units'[u])
    /\ units[v].acct = units'[u].acct
    /\ m \in Obtained(units[v])
    /\ clock - units[v].checkedAt < ttlMs

\* C4 as stated: for every interleaving of webhook handlers and poll runs of
\* one account, no two units obtain check = false for the same
\* accountId:messageId within the TTL.
C4_AsStated ==
    [][\A u, v \in Units, m \in MsgIds : ~BothObtain(u, v, m)]_vars

\* C4 amended: two units obtain check = false for the same
\* accountId:messageId within the TTL only when the size loop of prune evicted
\* the key between the two checks.
C4_AtMostOneObtains ==
    [][\A u, v \in Units, m \in MsgIds :
          BothObtain(u, v, m) => EvictedAtCheck(u, m)]_vars

\* a webhook unit and a poll unit of one account both checked m while the
\* first to obtain false is still in processInboundEmail for it, and only
\* that one obtained false
C4_Witness ==
    \E u, v \in Units, m \in MsgIds :
        /\ u # v
        /\ {units[u].kind, units[v].kind} = {"webhook", "poll"}
        /\ units[u].acct = units[v].acct
        /\ units[v].pc = "process"
        /\ units[v].pending[units[v].idx] = m
        /\ units[u].checkedAt >= units[v].checkedAt
        /\ \E i \in 1..Len(units[u].ids) : units[u].ids[i] = m
        /\ m \notin Obtained(units[u])

---------------------------------------------------------------------------
(* Claims about extractLatestContent, checked under SpecExtract *)

\* extractLatestContent has been applied to a body with lines
Extracted == fout # NoValue /\ fin # Undefined

\* a line that matches one of the three stop markers
IsStopLine(l) ==
    IsOnWrote(Trim(l)) \/ IsOriginalMessage(Trim(l)) \/ IsUnderscores(Trim(l))

\* the position of the first stop line, or one past the end
FirstStop(ls) ==
    IF \E i \in 1..Len(ls) : IsStopLine(ls[i])
    THEN CHOOSE i \in 1..Len(ls) :
             IsStopLine(ls[i]) /\ \A j \in 1..(i - 1) : ~IsStopLine(ls[j])
    ELSE Len(ls) + 1

NotQuoted(l) == ~StartsWithGt(l)

\* the lines before the first stop line that do not begin with ">"
KeptLines(ls) == SelectSeq(SubSeq(ls, 1, FirstStop(ls) - 1), NotQuoted)

\* C15: the result is the lines before the first stop marker, without those
\* beginning with ">", in their order, joined with newlines and trimmed.
C15_LatestContent ==
    Extracted => fout = Text(JoinTrim(KeptLines(fin.lines)))

\* a quoted line was dropped, the scan went on and stopped at a later marker
C15_Witness ==
    /\ Extracted
    /\ \E i, j, k \in 1..Len(fin.lines) :
          /\ i < j /\ j < k
          /\ StartsWithGt(fin.lines[i])
          /\ fin.lines[j] = "hi"
          /\ IsStopLine(fin.lines[k])
    /\ fout = Text(<<"hi">>)

\* C16 as stated: for every body, no line of the result begins with ">"; and
\* the result is empty when the body is absent or all its lines are blank or
\* quoted.
C16_AsStated ==
    fout # NoValue =>
        /\ \A i \in 1..Len(fout.lines) : ~StartsWithGt(fout.lines[i])
        /\ (fin = Undefined
              \/ \A i \in 1..Len(fin.lines) :
                    Trim(fin.lines[i]) = "" \/ StartsWithGt(fin.lines[i]))
             => fout = EmptyText

\* a line with whitespace before its ">"
IsIndentedQuote(l) == ~StartsWithGt(l) /\ StartsWithGt(TrimStart(l))

\* C16 amended: no line of the result after the first begins with ">", and the
\* first does only when the body holds a line with whitespace before its ">"
\* (such a line is kept, and the final trim removes the whitespace); the
\* result is empty when the body is absent or all its lines are blank or
\* begin with ">".
C16_NoQuotedLine ==
    fout # NoValue =>
        /\ \A i \in 2..Len(fout.lines) : ~StartsWithGt(fout.lines[i])
        /\ StartsWithGt(fout.lines[1])
             => \E i \in 1..Len(fin.lines) : IsIndentedQuote(fin.lines[i])
        /\ (fin = Undefined
              \/ \A i \in 1..Len(fin.lines) :
                    Trim(fin.lines[i]) = "" \/ StartsWithGt(fin.lines[i]))
             => fout = EmptyText

\* a body of text and quoted lines gave the text alone
C16_Witness ==
    /\ Extracted
    /\ \E i, j \in 1..Len(fin.lines) :
          i # j /\ StartsWithGt(fin.lines[i]) /\ fin.lines[j] = "hi"
    /\ \A i \in 1..Len(fin.lines) : ~IsStopLine(fin.lines[i])
    /\ \A i \in 1..Len(fout.lines) : ~StartsWithGt(fout.lines[i])
    /\ fout # EmptyText

---------------------------------------------------------------------------
(* Claims about processInboundEmail, checked under SpecProcess *)

\* the sender's address is an entry of the configured allowFrom, letter case
\* ignored
SenderListed(env) == Includes(AllowFrom(env), ToLowerCase(env.email.from))

\* the wildcard is an entry of the configured allowFrom
WildcardListed(env) == Includes(AllowFrom(env), "*")

\* C11 as stated: an email is dispatched only if its sender is listed in
\* allowFrom, or the policy is "open", or allowFrom holds "*"; under
\* "allowlist" or "pairing" a sender that is not listed is never dispatched,
\* whatever allowFrom holds, the empty list included.
C11_AsStated ==
    proc.dispatched =>
        \/ SenderListed(penv)
        \/ DmPolicy(penv) = "open"
        \/ WildcardListed(penv)

\* the part of C11 the code keeps: with a non-empty allowFrom, an email is
\* dispatched only if its sender is listed, or the policy is "open", or
\* allowFrom holds "*"
C11_NonEmptyList ==
    (proc.dispatched /\ Len(AllowFrom(penv)) > 0) =>
        \/ SenderListed(penv)
        \/ DmPolicy(penv) = "open"
        \/ WildcardListed(penv)

\* an unlisted sender was dropped by a non-empty list without wildcard
C11_Witness ==
    /\ proc.pc = "done"
    /\ proc.outcome = "not in allowFrom"
    /\ DmPolicy(penv) \in {"allowlist", "pairing"}
    /\ ~proc.dispatched

\* C12: under policy "disabled", and for a sender equal to the bot address
\* (letter case ignored) under every policy and allowFrom, the email is never
\* dispatched and no reply is sent.
C12_DisabledAndSelf ==
    (DmPolicy(penv) = "disabled" \/ ToLowerCase(penv.email.from) = BotEmail(penv))
        => (~proc.dispatched /\ proc.sent = <<>>)

\* the bot's own email, in another letter case, was dropped under policy
\* "open"
C12_Witness ==
    /\ proc.pc = "done"
    /\ proc.outcome = "self"
    /\ DmPolicy(penv) = "open"
    /\ penv.email.from # BotEmail(penv)
    /\ ~proc.dispatched

\* C13: an email with empty latest content and no attachment is never
\* dispatched and gets no reply; with empty latest content and an attachment
\* it is not dropped on the ground of its content.
C13_EmptyContent ==
    LatestContent(penv.email) = EmptyText =>
        /\ penv.email.attachments = 0 => (~proc.dispatched /\ proc.sent = <<>>)
        /\ penv.email.attachments > 0 => proc.outcome # "empty"

\* an email that passes the sender checks was dropped for its empty content
C13_Witness ==
    /\ proc.pc = "done"
    /\ proc.outcome = "empty"
    /\ penv.email.bodyText = Text(<<"> old">>)
    /\ penv.email.attachments = 0

\* C19: every reply sent goes To the original sender, with the Cc of
\* resolveReplyRecipients (empty when preserveCc is false, the other
\* recipients when it is true or unset), in the inbound thread, In-Reply-To
\* the inbound Message-ID, References the inbound References followed by the
\* inbound Message-ID.
C19_ReplyHeaders ==
    \A i \in 1..Len(proc.sent) :
        LET m == proc.sent[i]
            e == penv.email
            p == [botEmail |-> BotEmail(penv), originalFrom |-> e.from,
                  originalTo |-> e.to, originalCc |-> e.cc, preserveCc |-> TRUE]
        IN  /\ proc.dispatched
            /\ m.to = <<e.from>>
            /\ m.cc = IF penv.preserveCc = Bool(FALSE) THEN <<>>
                      ELSE ResolveReplyRecipients(p).cc
            /\ m.threadId = e.threadId
            /\ m.inReplyTo = e.messageId
            /\ m.references = e.references \o <<e.messageId>>

\* a reply was sent with a non-empty Cc under an unset preserveCc, for an
\* inbound email that had References
C19_Witness ==
    /\ Len(proc.sent) > 0
    /\ penv.preserveCc = Undefined
    /\ proc.sent[1].cc # <<>>
    /\ penv.email.references # <<>>

---------------------------------------------------------------------------
(* Claims about the webhook handler's responses, checked under Spec *)

\* the handler of webhook unit u answers exactly once: nothing is answered
\* before the unit ends, something is when it ends, and nothing after
OneResponse(u) ==
    /\ units[u].resp # "none" => units'[u] = units[u]
    /\ units'[u].kind = "webhook"
         => (units'[u].resp # "none" <=> units'[u].pc = "done")

---------------------------------------------------------------------------
(* Claims about extractInboundMessageIds, checked under SpecIds *)

\* the id fields of the elements of a messages array that are records, in
\* order: messageId, then id
RECURSIVE MessageFields(_)
MessageFields(messages) ==
    IF messages = <<>> THEN <<>>
    ELSE (IF Head(messages).t = "object"
          THEN <<Head(messages).messageId, Head(messages).id>>
          ELSE <<>>) \o MessageFields(Tail(messages))

\* the values a node offers as ids, in the order messageId, id, messageIds[],
\* messages[].messageId / id
NodeFields(node) ==
    IF node.t # "object" THEN <<>>
    ELSE <<node.messageId, node.id>>
         \o (IF node.messageIds.t = "array" THEN node.messageIds.a ELSE <<>>)
         \o (IF node.messages.t = "array" THEN MessageFields(node.messages.a) ELSE <<>>)

\* the top level first, then payload.data
PayloadFields(payload) ==
    NodeFields(payload)
        \o (IF payload.t = "object" THEN NodeFields(payload.data) ELSE <<>>)

\* the value is a string that is not blank
IsId(v) == v.t = "string" /\ TrimId(v.s) # ""

\* where the id first appears among the fields
FirstAppearance(fields, id) ==
    CHOOSE i \in 1..Len(fields) :
        /\ IsId(fields[i]) /\ TrimId(fields[i].s) = id
        /\ \A j \in 1..(i - 1) : ~(IsId(fields[j]) /\ TrimId(fields[j].s) = id)

\* C17: the result holds every non-blank string id of the payload, trimmed,
\* exactly once, in the order of first appearance, and nothing else: no
\* duplicate, no empty string, nothing from blank or non-string values.
C17_MessageIds ==
    fout # NoValue =>
        LET r == fout.a
            fields == PayloadFields(fin)
        IN  /\ \A i, j \in 1..Len(r) : i # j => r[i] # r[j]
            /\ \A i \in 1..Len(r) : r[i] # ""
            /\ { r[i] : i \in 1..Len(r) }
                 = { TrimId(fields[k].s) : k \in { k \in 1..Len(fields) : IsId(fields[k]) } }
            /\ \A i, j \in 1..Len(r) :
                 i < j => FirstAppearance(fields, r[i]) < FirstAppearance(fields, r[j])

\* a payload with a repeated id, an untrimmed id, a blank id, a number and a
\* data node gave the distinct ids in order
C17_Witness ==
    /\ fout # NoValue
    /\ fin.t = "object"
    /\ fin.messageId = Str(" m1 ")
    /\ fin.id = Str("  ")
    /\ fin.messageIds = Arr(<<Num(5), Str("m1")>>)
    /\ fin.data.t = "object"
    /\ fin.data.messageId = Str("m4")
    /\ fout.a = <<"m1", "m4">>

---------------------------------------------------------------------------
(* Claims about the hook URL functions, checked under SpecHook *)

\* the URL has a query parameter accountId whose value decodes to accountId
CarriesAccountId(url, accountId) ==
    \E i \in 1..Len(url.query) :
        /\ url.query[i].name = "accountId"
        /\ QueryDecode(url.query[i].value) = accountId

\* every query parameter of url is a parameter of result, at the same place
\* and with the same decoded value
ParamsPreserved(url, result) ==
    /\ Len(result.query) >= Len(url.query)
    /\ \A i \in 1..Len(url.query) :
          /\ result.query[i].name = url.query[i].name
          /\ QueryDecode(result.query[i].value) = QueryDecode(url.query[i].value)

\* the plain inbound URL of a gateway port
PlainUrl(gatewayPort) ==
    Url(TRUE, "http://127.0.0.1:" \o ToString(gatewayPort) \o "/email/inbound", <<>>, "")

\* C18 as stated: for the default account both functions return the plain URL
\* unchanged; for any other account the result carries accountId=<encoded
\* account id> as a query parameter and keeps every query parameter the URL
\* had.
C18_AsStated ==
    fout # NoValue =>
        IF fin.fn = "build"
        THEN IF fin.accountId = DEFAULT_ACCOUNT_ID
             THEN fout = PlainUrl(fin.gatewayPort)
             ELSE CarriesAccountId(fout, fin.accountId)
        ELSE IF fin.accountId = DEFAULT_ACCOUNT_ID
             THEN fout = fin.hookUrl
             ELSE /\ CarriesAccountId(fout, fin.accountId)
                  /\ ParamsPreserved(fin.hookUrl, fout)

\* C18 amended: the same, except that ensureEmailHookUrlAccountId returns a
\* URL that already has an accountId parameter as it is (whatever account
\* that parameter names), and that for a string that does not parse as a URL
\* the parameter is added at the end of the string, so that it is a query
\* parameter only if the string has no fragment.
C18_HookUrl ==
    fout # NoValue =>
        IF fin.fn = "build"
        THEN IF fin.accountId = DEFAULT_ACCOUNT_ID
             THEN fout = PlainUrl(fin.gatewayPort)
             ELSE CarriesAccountId(fout, fin.accountId)
        ELSE IF fin.accountId = DEFAULT_ACCOUNT_ID
             THEN fout = fin.hookUrl
             ELSE /\ ParamsPreserved(fin.hookUrl, fout)
                  /\ (fin.hookUrl.abs /\ HasAccountId(fin.hookUrl)) => fout = fin.hookUrl
                  /\ (fin.hookUrl.abs /\ ~HasAccountId(fin.hookUrl))
                       => CarriesAccountId(fout, fin.accountId)
                  /\ (~fin.hookUrl.abs /\ fin.hookUrl.frag = "")
                       => CarriesAccountId(fout, fin.accountId)

\* a URL with a token parameter got the encoded account id added after it
C18_Witness ==
    /\ fout # NoValue
    /\ fin.fn = "ensure"
    /\ fin.accountId = "sales+na"
    /\ fin.hookUrl = Url(TRUE, "http://127.0.0.1:18789/email/inbound",
                         <<Param("token", "abc")>>, "")
    /\ fout.query = <<Param("token", "abc"), Param("accountId", "sales%2Bna")>>

---------------------------------------------------------------------------
(* Claims about the accounts' dedup state, checked under SpecAccounts *)

\* C20 as stated: the result of a check for a key of account "default" is
\* what it would be with the checks of the other accounts removed from the
\* sequence.
C20_AsStated ==
    \A i \in 1..Len(log) : log[i].ret = log[i].alone

\* the half of C20 the code keeps: the checks of another account never make
\* a key of account "default" a duplicate
C20_NeverMadeDuplicate ==
    \A i \in 1..Len(log) : log[i].ret => log[i].alone

\* a check of account "default" returned true while the cache held nothing of
\* another account's
C20_Witness ==
    /\ log # <<>>
    /\ log[1].ret
    /\ log[1].alone
    /\ cache = shadow

---------------------------------------------------------------------------
(* Further claims about the dedupe cache, checked under SpecCache *)

\* C21: with ttlMs = 0 a check of a key that is in the store returns true,
\* however long ago the key was recorded, and a check removes entries only
\* through the size loop of prune, none because of its age.
C21_NoExpiry ==
    [][ttlMs = 0 =>
          \A k \in CacheKeys :
              Check(Str(k)) =>
                  /\ CacheHas(cache, k) => Last(log').ret
                  /\ cache' = IF CacheHas(cache, k) THEN Touch(cache, k, clock)
                              ELSE PruneOldest(Touch(cache, k, clock))]_vars

\* with ttlMs = 0 a key recorded at time 0 was a duplicate at time MaxTime
C21_Witness ==
    /\ ttlMs = 0
    /\ Len(log) >= 2
    /\ log[Len(log) - 1].key = Last(log).key
    /\ log[Len(log) - 1].now = 0
    /\ ~log[Len(log) - 1].ret
    /\ Last(log).now = MaxTime
    /\ Last(log).ret

\* C22: with maxSize = 0 every check returns false, for any sequence of
\* checks and any ttlMs, and the store is empty after every check.
C22_Disabled ==
    maxSize = 0 =>
        /\ cache = <<>>
        /\ \A i \in 1..Len(log) : ~log[i].ret

\* with maxSize = 0 the same non-empty key was checked twice at the same time
\* and was new both times
C22_Witness ==
    /\ maxSize = 0
    /\ Len(log) >= 2
    /\ ~Falsy(Last(log).key)
    /\ log[Len(log) - 1].key = Last(log).key
    /\ log[Len(log) - 1].now = Last(log).now
    /\ ~Last(log).ret
    /\ cache = <<>>

\* C23: after every check, whatever the keys and times, the store holds at
\* most maxSize entries.
C23_MemoryBound == Len(cache) <= maxSize

\* a full store took a hit and then a miss of another key, and is still full
C23_Witness ==
    /\ maxSize >= 1
    /\ Len(log) >= 2
    /\ log[Len(log) - 1].ret
    /\ ~Last(log).ret
    /\ ~Falsy(Last(log).key)
    /\ log[Len(log) - 1].key # Last(log).key
    /\ Len(cache) = maxSize

---------------------------------------------------------------------------
(* The refresh of an entry by a hit, checked under SpecLru *)

\* the entries of c other than key's, in their order
Others(c, key) == SelectSeq(c, LAMBDA e : e.key # key)

\* the step is check(k) and it returns true
HitStep(k) == Check(Str(k)) /\ Last(log').ret

\* the hit made k's entry the most recent one, with timestamp now, and
\* changed no other entry
Refreshed(k) ==
    /\ cache' # <<>>
    /\ Last(cache') = [key |-> k, ts |-> clock]
    /\ SubSeq(cache', 1, Len(cache') - 1) = Others(cache, k)

\* calls i and i+1 of l are checks of one key, the first a hit (it refreshed
\* the entry), the second less than ttlMs later: the second is a hit, however
\* long ago the key was recorded
SlidingWindow(l) ==
    \A i \in 1..(Len(l) - 1) :
        (/\ l[i].key = l[i + 1].key
         /\ l[i].ret
         /\ l[i + 1].now - l[i].now < ttlMs)
            => l[i + 1].ret

\* in the step check(k), an entry is removed only if every entry before it in
\* the order of last touch, other than k's own, is removed as well
OldestFirst(k) ==
    \A i, j \in 1..Len(cache) :
        (/\ i < j
         /\ cache[i].key # k
         /\ ~CacheHas(cache', cache[j].key))
            => ~CacheHas(cache', cache[i].key)

\* the store is ordered by time of last touch
TouchOrder(c) == \A i, j \in 1..Len(c) : i < j => c[i].ts <= c[j].ts

\* C24: a check that returns true sets the entry's timestamp to now and moves
\* it to the most-recent position; so a check of K less than ttlMs after a hit
\* of K returns true even when K was recorded ttlMs or more before, and the
\* store stays in order of last touch and loses entries from the oldest end
\* only: a refreshed key goes after every key last touched before it.
C24_Refresh ==
    [][\A k \in LruKeys :
           /\ HitStep(k) => Refreshed(k)
           /\ Check(Str(k)) => (OldestFirst(k) /\ TouchOrder(cache')
                                  /\ SlidingWindow(log'))]_vars

\* K was recorded at t1, hit at t2 and hit again at t3 with t3 - t1 >= ttlMs,
\* and is the most recent of two stored keys
C24_Witness ==
    /\ ttlMs > 0
    /\ Len(log) >= 2
    /\ log[Len(log) - 1].key = Last(log).key
    /\ log[Len(log) - 1].ret
    /\ Last(log).ret
    /\ log[Len(log) - 1].existing >= 0
    /\ log[Len(log) - 1].existing < log[Len(log) - 1].now
    /\ log[Len(log) - 1].now < Last(log).now
    /\ Last(log).now - log[Len(log) - 1].existing >= ttlMs
    /\ Len(cache) = 2
    /\ Last(cache) = [key |-> Last(log).key.s, ts |-> Last(log).now]

---------------------------------------------------------------------------
(* Uniqueness of the reply recipients, checked under SpecReply *)

\* no element of l occurs twice
Unique(l) == \A i, j \in 1..Len(l) : l[i] = l[j] => i = j

---------------------------------------------------------------------------
(* The /email/inbound route and a malformed body, checked under SpecRoute *)

\* the body of the request, once all its chunks arrived, is no valid JSON
Malformed ==
    /\ http.incoming = <<>>
    /\ ConcatChunks(http.chunks) # ""
    /\ ~IsJson(ConcatChunks(http.chunks))

\* C26 as stated: a request whose body is not valid JSON is answered with an
\* error response (not 2xx) by the route: when its handler has settled, the
\* handler's promise is fulfilled and the response has been ended with a
\* status of 400 or more.
C26_AsStated ==
    (http.pc \in {"resolved", "rejected"} /\ Malformed /\ http.err # "stream error")
        => (http.pc = "resolved" /\ http.ended /\ http.statusCode >= 400)

---------------------------------------------------------------------------
(* The duplicate outcome of a unit, checked under Spec *)

\* the ids, in order, for which check returns false when the keys of ids are
\* checked one after the other on cache c at time now
RECURSIVE NotDuplicate(_, _, _, _)
NotDuplicate(c, acct, ids, now) ==
    IF ids = <<>> THEN <<>>
    ELSE LET key == Str(DedupKey(acct, Head(ids)))
             rest == NotDuplicate(CheckCache(c, key, now), acct, Tail(ids), now)
         IN  IF CheckReturns(c, key, now) THEN rest ELSE <<Head(ids)>> \o rest

\* the unit ended at the dedup check: every id was reported duplicate
AllDuplicate(r) == r.checkedAt # -1 /\ r.pending = <<>>

\* C28: the ids a unit goes on with are exactly those the dedup check did not
\* report duplicate, and only those are ever handed to processInboundEmail;
\* when every id was reported duplicate the unit has ended, nothing was handed
\* to processInboundEmail, a webhook unit has answered 200 skipped "duplicate",
\* and the unit never does anything more.
C28_DuplicateTerminal ==
    [][\A u \in Units :
          /\ FilterStep(u) =>
                units'[u].pending
                    = NotDuplicate(cache, units'[u].acct, units'[u].ids, clock)
          /\ units'[u].handed \subseteq Obtained(units'[u])
          /\ AllDuplicate(units'[u]) =>
                /\ units'[u].pc = "done"
                /\ units'[u].handed = {}
                /\ units'[u].kind = "webhook" => units'[u].resp = "200 duplicate"
          /\ AllDuplicate(units[u]) => units'[u] = units[u]]_vars

\* a webhook notification all of whose ids were duplicates was answered
\* 200 "duplicate", and another unit went on with one id of its two
C28_Witness ==
    \E u, v \in Units :
        /\ units[u].kind = "webhook"
        /\ units[u].ids # <<>>
        /\ AllDuplicate(units[u])
        /\ units[u].resp = "200 duplicate"
        /\ units[u].handed = {}
        /\ Len(units[v].pending) >= 1
        /\ units[v].handed # {}

---------------------------------------------------------------------------
(* The body handed to the agent and the order of the checks, checked under
   SpecProcess *)

\* C27 as stated: for every dispatched message that has a body, BodyForAgent
\* and CommandBody are the text extractLatestContent returned, also when the
\* message is dispatched because it has attachments.
C27_AsStated ==
    (proc.dispatched /\ BodyText(penv.email) # Undefined)
        => /\ proc.ctx.BodyForAgent = LatestContent(penv.email)
           /\ proc.ctx.CommandBody = LatestContent(penv.email)

\* C29 as stated: the content check is applied before the allow-list check:
\* a call for a message with empty content and no attachments that returns
\* ends in EMPTY, whatever its sender (here: any sender but the bot itself,
\* under any policy but "disabled").
C29_AsStated ==
    (/\ proc.pc = "done"
     /\ proc.outcome # "threw"
     /\ ToLowerCase(penv.email.from) # BotEmail(penv)
     /\ DmPolicy(penv) # "disabled"
     /\ LatestContent(penv.email) = EmptyText
     /\ penv.email.attachments = 0)
        => proc.outcome = "empty"

---------------------------------------------------------------------------
(* Watcher supervision, checked under SpecServeFair *)

\* a watcher child is spawned in this step
SpawnStep == serve.child # "running" /\ serve'.child = "running"

\* a child that reported no bind conflict exits in this step, the monitor not
\* shutting down
TransientExitStep ==
    /\ serve.child \in {"running", "errored"}
    /\ serve'.child = "exited"
    /\ ~serve.addressInUse
    /\ ~serve.shuttingDown

\* C30: once a child that reported "address already in use" has exited, no
\* child is spawned again and no restart is pending; every other exit, the
\* monitor not shutting down, starts the 5 s timer, a restart happens only
\* when that delay has passed, and a pending restart leads to a new child
\* unless the monitor starts shutting down first; so for every such exit.
C30_Supervision ==
    /\ [][/\ serve.lastExit = "bind" => ~SpawnStep
          /\ serve'.lastExit = "bind" => (serve'.timer = -1 /\ ~serve'.watcherProcess)
          /\ TransientExitStep => serve'.timer = RESTART_DELAY_MS
          /\ (SpawnStep /\ serve.pc # "start") => serve.timer = 0]_vars
    /\ (serve.timer >= 0 /\ ~serve.shuttingDown)
           ~> (serve.child = "running" \/ serve.shuttingDown)

\* the child was restarted after each of two transient exits, and the third
\* child exited on a bind conflict
C30_Witness ==
    /\ serve.exits = 3
    /\ serve.lastExit = "bind"
    /\ ~serve.shuttingDown
    /\ serve.child = "exited"
    /\ serve.timer = -1

---------------------------------------------------------------------------
(* Pruning on a miss, checked under SpecLru *)

\* no entry of c is older than now - ttlMs
NoneExpired(c, now) == \A i \in 1..Len(c) : c[i].ts >= now - ttlMs

\* C31 as stated: after any check that returns false at time now, with
\* ttlMs > 0, the store holds no entry older than now - ttlMs.
C31_AsStated ==
    (log # <<>> /\ ~Last(log).ret /\ ttlMs > 0)
        => NoneExpired(cache, Last(log).now)

\* C31 amended: the same for a check of a non-empty key; that key is then the
\* most recent entry, with timestamp now (the cache has room for it); a check
\* that returns true removes no key; a check of an empty or absent key
\* returns false and leaves the store as it is, expired entries included.
C31_PruneOnMiss ==
    [][/\ \A k \in LruKeys :
             Check(Str(k)) =>
                 IF Last(log').ret
                 THEN CacheKeySet(cache') = CacheKeySet(cache)
                 ELSE /\ ttlMs > 0 => NoneExpired(cache', clock)
                      /\ Last(cache') = [key |-> k, ts |-> clock]
       /\ \A v \in {Str(""), Null, Undefined} :
             Check(v) => (cache' = cache /\ ~Last(log').ret)]_vars

\* a key was recorded, and the miss of another key ttlMs or more later left
\* that other key alone in a store with room for both
C31_Witness ==
    /\ ttlMs > 0
    /\ Len(log) >= 2
    /\ ~Falsy(log[Len(log) - 1].key)
    /\ ~log[Len(log) - 1].ret
    /\ ~Falsy(Last(log).key)
    /\ ~Last(log).ret
    /\ Last(log).key # log[Len(log) - 1].key
    /\ Last(log).now - log[Len(log) - 1].now > ttlMs
    /\ cache = <<[key |-> Last(log).key.s, ts |-> Last(log).now]>>
    /\ maxSize >= 2

---------------------------------------------------------------------------
(* The Twilio signature of an inbound SMS, checked under SpecSms *)

\* C32 as stated: with auth_token configured, a request is routed to the
\* agent, and a reply SMS is sent for it, only if its signature was validated;
\* a request without signature header is answered 403.
C32_AsStated ==
    /\ (sms.routed \/ sms.sent # <<>>) => sms.validated
    /\ (sms.pc # "inbound" /\ sms.signature = Undefined) => sms.status = 403

---------------------------------------------------------------------------
(* The context of an outbound call, checked under SpecVapi *)

\* C33 as stated: a context that a user turn consumed is injected into an
\* agent dispatch, so every consumed context reaches exactly one dispatch.
C33_AsStated ==
    (vapi.last.op \in {"dispatch", "route threw"} /\ vapi.last.ret # NoContext)
        => vapi.last.op = "dispatch"

\* the dispatches of call c that carried a context never outnumber the
\* contexts stored for it, and a context still stored was not yet injected
InjectedAtMostOnce ==
    \A c \in CallIds \cup {RandomUuid} :
        /\ vapi.injected[c] <= vapi.stored[c]
        /\ HasContext(vapi.contexts, c) => vapi.injected[c] < vapi.stored[c]

\* C33: a context is consumed at most once.  A turn with a user message gets
\* the context stored for its call and leaves none stored, so that later turns
\* get undefined until a new context is stored; the greeting turn leaves the
\* stored contexts alone; the context of a call is injected into at most one
\* dispatch per stored context, and into none when the turn that consumed it
\* failed before the dispatch.
C33_ConsumeOnce ==
    /\ [](vapi.pc = "serving" => InjectedAtMostOnce)
    /\ [][\A c \in CallIds \cup {RandomUuid} :
            /\ (\E routeThrows \in BOOLEAN : UserTurn(c, routeThrows)) =>
                   /\ vapi'.last.ret = vapi.contexts[c]
                   /\ ~HasContext(vapi'.contexts, c)
                   /\ \A d \in CallIds \cup {RandomUuid} :
                          d # c => vapi'.contexts[d] = vapi.contexts[d]
                   /\ vapi'.injected[c] - vapi.injected[c] =
                          (IF vapi'.last.op = "dispatch" /\ HasContext(vapi.contexts, c)
                           THEN 1 ELSE 0)
            /\ GreetingTurn(c) => vapi'.contexts = vapi.contexts]_vars

\* a context was stored for c1 and injected once, a greeting turn left it
\* stored, and the latest user turn of c1 found none
C33_Witness ==
    /\ vapi.pc = "serving"
    /\ vapi.stored["c1"] = 1
    /\ vapi.injected["c1"] = 1
    /\ vapi.turns >= 3
    /\ vapi.last = [op |-> "dispatch", callId |-> "c1", ret |-> NoContext]

---------------------------------------------------------------------------
(* The dedup key of a message whose processing failed, checked under Spec *)

\* r is a webhook unit that answered 500 because processInboundEmail threw
FailedBatch(r) == r.kind = "webhook" /\ r.resp = "500 error" /\ r.checkedAt # -1

\* u1 is a failed batch that obtained false for m (the id that failed, or one
\* that was still pending) less than the TTL ago, and webhook unit u2 of the
\* same account, whose ids include m, runs its filter in this step
Redelivery(u1, u2, m) ==
    /\ u1 # u2
    /\ FailedBatch(units[u1])
    /\ m \in Obtained(units[u1])
    /\ clock - units[u1].checkedAt < ttlMs
    /\ units[u2].kind = "webhook"
    /\ units[u2].acct = units[u1].acct
    /\ FilterStep(u2)
    /\ \E i \in 1..Len(units'[u2].ids) : units'[u2].ids[i] = m

\* a throw of processInboundEmail in a webhook unit ends the unit with 500
\* and hands no further id on, and the unit does nothing more
FailureEndsBatch ==
    \A u \in Units :
        /\ (units[u].kind = "webhook" /\ ProcessThrows(u)) =>
               /\ units'[u].pc = "done"
               /\ units'[u].resp = "500 error"
               /\ units'[u].handed = units[u].handed
               /\ units'[u].pending = units[u].pending
        /\ FailedBatch(units[u]) => units'[u] = units[u]

\* C34 as stated: each accountId:messageId is handed on at most once per TTL
\* window; a throw in a webhook batch is answered 500 and ends the batch; a
\* redelivery of the failed or the remaining ids within the TTL is not
\* processed, and one of a single such id is answered "duplicate".
C34_AsStated ==
    [][/\ FailureEndsBatch
       /\ \A u, v \in Units, m \in MsgIds :
            /\ ~BothObtain(u, v, m)
            /\ Redelivery(u, v, m) =>
                  /\ m \notin Obtained(units'[v])
                  /\ units'[v].ids = <<m>> => units'[v].resp = "200 duplicate"]_vars

\* C34 amended: the same, unless the size loop of prune has evicted the key
\* of the id before the later check (more than RECENT_MESSAGE_MAX newer keys).
C34_FailedNotRetried ==
    [][/\ FailureEndsBatch
       /\ \A u, v \in Units, m \in MsgIds :
            /\ BothObtain(u, v, m) => EvictedAtCheck(u, m)
            /\ (Redelivery(u, v, m) /\ ~EvictedAtCheck(v, m)) =>
                  /\ m \notin Obtained(units'[v])
                  /\ units'[v].ids = <<m>> =>
                        /\ units'[v].resp = "200 duplicate"
                        /\ units'[v].handed = {}]_vars

\* a batch of two ids failed on its first id, the second was never handed
\* on, and a later delivery of the second was answered "duplicate"
C34_Witness ==
    \E u1, u2 \in Units :
        /\ u1 # u2
        /\ FailedBatch(units[u1])
        /\ Len(units[u1].pending) = 2
        /\ units[u1].handed = {units[u1].pending[1]}
        /\ units[u2].kind = "webhook"
        /\ units[u2].ids = <<units[u1].pending[2]>>
        /\ units[u2].checkedAt >= units[u1].checkedAt
        /\ units[u2].checkedAt - units[u1].checkedAt < ttlMs
        /\ units[u2].resp = "200 duplicate"
        /\ units[u2].handed = {}

---------------------------------------------------------------------------
(* A message whose processing failed in polling mode, checked under Spec *)

\* the key of message m of unit r's account is in the cache, recorded or
\* refreshed less than the TTL ago
Alive(r, m) ==
    /\ DedupKey(r.acct, m) \in CacheKeySet(cache)
    /\ clock - CacheGet(cache, DedupKey(r.acct, m)) < ttlMs

\* poll unit v runs its filter in this step over ids that include m
PollChecks(v, m) ==
    /\ FilterStep(v)
    /\ units'[v].kind = "poll"
    /\ \E i \in 1..Len(units'[v].ids) : units'[v].ids[i] = m

\* C35: in polling mode a message whose processing threw is not marked as
\* read and its dedup entry stays; a later poll that lists the id while its
\* entry is younger than the TTL (and was not evicted by the size limit) does
\* not process it and refreshes the entry to the time of the poll, so that
\* polls less than a TTL apart never process the message again.
C35_NoRetry ==
    [][\A u \in Units, m \in MsgIds :
          /\ (units[u].kind = "poll" /\ ProcessThrows(u)) =>
                /\ cache' = cache
                /\ units'[u].read = units[u].read
                /\ units[u].pending[units[u].idx] \in units'[u].failed
          /\ (PollChecks(u, m) /\ Alive(units'[u], m) /\ ~EvictedAtCheck(u, m)) =>
                /\ m \notin Obtained(units'[u])
                /\ DedupKey(units'[u].acct, m) \in CacheKeySet(cache') =>
                      CacheGet(cache', DedupKey(units'[u].acct, m)) = clock]_vars

\* a poll failed on m and left it unread; the next poll, half a TTL later,
\* listed m again, did not process it, and the entry now carries the time of
\* that poll
C35_Witness ==
    \E u1, u2 \in Units, m \in MsgIds :
        /\ units[u1].kind = "poll"
        /\ m \in units[u1].failed
        /\ m \notin units[u1].read
        /\ units[u2].kind = "poll"
        /\ units[u2].acct = units[u1].acct
        /\ units[u2].ids = <<m>>
        /\ units[u2].checkedAt = units[u1].checkedAt + TickMs
        /\ units[u2].pending = <<>>
        /\ cache = <<[key |-> DedupKey(units[u2].acct, m), ts |-> units[u2].checkedAt]>>

---------------------------------------------------------------------------
(* markAsRead in a poll run, checked under Spec *)

\* the id unit r is working on
Current(r) == r.pending[r.idx]

\* C36: in a poll run an id is given to markAsRead only in the step in which
\* processInboundEmail returned for it, never after a throw; a throw on one
\* pending id lets the run go on with its next pending id, or end when there
\* is none; the run having ended, the next poll of the account can start.
C36_MarkAfterSuccess ==
    /\ [][\A u \in Units :
          /\ units'[u].read # units[u].read =>
                /\ units[u].kind = "poll"
                /\ ProcessReturns(u)
                /\ units'[u].read = units[u].read \cup {Current(units[u])}
                /\ units'[u].pc = "markAsRead"
          /\ (units'[u].pc = "markAsRead" /\ units[u].pc # "markAsRead") =>
                ProcessReturns(u)
          /\ units[u].kind = "webhook" => units'[u].read = {}
          /\ (units[u].kind = "poll" /\ ProcessThrows(u)) =>
                /\ units'[u].read = units[u].read
                /\ IF units[u].idx < Len(units[u].pending)
                   THEN /\ units'[u].pc = "process"
                        /\ Current(units'[u]) = units[u].pending[units[u].idx + 1]
                        /\ Current(units'[u]) \in units'[u].handed
                   ELSE units'[u].pc = "done"
          /\ ProcessThrows(u) =>
                /\ emailClients' = emailClients
                /\ \A v \in Units : v # u => units'[v] = units[v]]_vars
    /\ [](\A u \in Units :
            (units[u].kind = "poll" /\ units[u].failed # {} /\ units[u].pc = "done"
               /\ units[u].acct \in emailClients
               /\ \E v \in Units : units[v].pc = "idle")
                => \E v \in Units : ENABLED PollStart(v, units[u].acct))

\* a poll run with two pending ids: processing the first threw and it was
\* not marked as read, the second was processed and marked as read; then a
\* later poll of the account ran
C36_Witness ==
    \E u, v \in Units :
        /\ units[u].kind = "poll"
        /\ Len(units[u].pending) = 2
        /\ units[u].failed = {units[u].pending[1]}
        /\ units[u].read = {units[u].pending[2]}
        /\ units[u].pc = "done"
        /\ units[v].kind = "poll"
        /\ units[v].checkedAt >= units[u].checkedAt
        /\ v > u

---------------------------------------------------------------------------
(* Notifications answered without processing, checked under Spec *)

\* the responses of a notification that was not looked at further
Unprocessed == {"200 no messageId", "500 Gmail client not available"}

\* webhook unit u is answered in this step with a response of Unprocessed
AnsweredUnprocessed(u) ==
    /\ units[u].resp = "none"
    /\ units'[u].kind = "webhook"
    /\ units'[u].resp \in Unprocessed

\* C38: a notification answered because it carries neither message id nor
\* history id, or because the account's client is not registered, leaves the
\* dedup cache as it was and has checked no id; when only such notifications
\* came before, a later delivery of message m to a registered client obtains
\* false for m, which is handed to processInboundEmail.
C38_CacheUntouched ==
    [][\A u \in Units :
          /\ AnsweredUnprocessed(u) =>
                /\ cache' = cache
                /\ units'[u].checkedAt = -1
                /\ units'[u].handed = {}
          /\ (units[u].kind = "webhook" /\ units[u].pc = "getClient"
                /\ ~units[u].client /\ WebhookClient(u)) =>
                /\ units'[u].resp = "500 Gmail client not available"
                /\ cache' = cache
          /\ \A m \in MsgIds :
                (/\ FilterStep(u)
                 /\ Delivered(units'[u], m)
                 /\ \A v \in Units : v # u => units[v].resp \in Unprocessed) =>
                    /\ m \in Obtained(units'[u])
                    /\ units'[u].pc = "process"]_vars

\* m was delivered while the client was not registered and answered 500;
\* delivered again with the client registered, it was processed
C38_Witness ==
    \E u1, u2 \in Units, m \in MsgIds :
        /\ u1 # u2
        /\ units[u1].resp = "500 Gmail client not available"
        /\ units[u1].ids = <<m>>
        /\ units[u2].kind = "webhook"
        /\ units[u2].ids = <<m>>
        /\ units[u2].handed = {m}
        /\ units[u2].resp = "200 processed"

---------------------------------------------------------------------------
(* The monitor after cleanup, checked under SpecServe *)

\* what holds of a monitor whose cleanup has run
Stopped ==
    /\ ~serve.watcherProcess
    /\ ~serve.renewInterval
    /\ ~serve.pollTimer
    /\ ~serve.connected
    /\ serve.disconnects = 1
    /\ DEFAULT_ACCOUNT_ID \notin emailClients

\* C37: once cleanup has run no watcher child is spawned (a pending restart
\* timer does nothing), no renewal interval and no poll timer is left, no
\* poll is started, the account's client is out of the registry, and
\* connected: false has been reported exactly once, however often cleanup is
\* called; before cleanup it has not been reported; the only error reported
\* after cleanup is one of the child process; at every moment at most one
\* watcher child of the monitor is alive.
C37_AfterCleanup ==
    /\ [](serve.pc # "none" =>
            /\ serve.alive \in {0, 1}
            /\ serve.shuttingDown <=> serve.cleanups > 0
            /\ IF serve.shuttingDown THEN Stopped ELSE serve.disconnects = 0)
    /\ [][serve.shuttingDown =>
            /\ serve'.shuttingDown
            /\ serve'.alive <= serve.alive
            /\ serve'.child # "running" \/ serve.child = "running"
            /\ serve'.polls = serve.polls
            /\ serve'.lastError \in {serve.lastError, "gog process error"}
            /\ serve'.disconnects = serve.disconnects]_vars

\* a child exited, the restart timer was set, cleanup ran, was called again,
\* and the timer fired without spawning
C37_Witness ==
    /\ serve.pc = "stopped"
    /\ serve.mode = "pubsub"
    /\ serve.cleanups = 2
    /\ serve.lastExit = "transient"
    /\ serve.child = "exited"
    /\ serve.timer = -1
    /\ serve.alive = 0

---------------------------------------------------------------------------
(* The account of the hook URL, checked under SpecWatch *)

\* the hook URL is the default one, or a configured one without accountId
NoAccountIdConfigured == fin.hookUrl = Undefined \/ ~HasAccountId(fin.hookUrl)

\* the accountId parameters the configured URL had are where they were
ExistingKept ==
    fin.hookUrl # Undefined =>
        \A i \in 1..Len(fin.hookUrl.query) :
            fin.hookUrl.query[i].name = "accountId" =>
                /\ i <= Len(fout.hookUrl.query)
                /\ fout.hookUrl.query[i] = fin.hookUrl.query[i]

\* C39 as stated: the route maps the hook URL of account A (the default URL,
\* or a configured URL without accountId parameter) back to A;
\* ensureEmailHookUrlAccountId overwrites no accountId parameter and, applied
\* to its result, returns it unchanged.
C39_AsStated ==
    fout # NoValue =>
        /\ (fout.routed # NoValue /\ NoAccountIdConfigured) => fout.routed.s = fin.accountId
        /\ ExistingKept
        /\ fout.again # NoValue => fout.again.url = fout.hookUrl

\* C39 amended: the round trip holds for the default URL and for a
\* configured URL without accountId parameter that parses as a URL or has no
\* fragment; no accountId parameter is overwritten; the function is
\* idempotent for the default account and on URLs that parse, while a string
\* that does not parse gets the parameter appended at every call.
C39_RoundTrip ==
    fout # NoValue =>
        /\ (fout.routed # NoValue /\ NoAccountIdConfigured
              /\ (fin.hookUrl = Undefined \/ fin.hookUrl.abs \/ fin.hookUrl.frag = ""))
             => fout.routed.s = fin.accountId
        /\ ExistingKept
        /\ (fout.again # NoValue
              /\ (fin.accountId = DEFAULT_ACCOUNT_ID \/ fin.hookUrl = Undefined
                    \/ fin.hookUrl.abs))
             => fout.again.url = fout.hookUrl
        /\ (fout.again # NoValue /\ fin.accountId # DEFAULT_ACCOUNT_ID
              /\ fin.hookUrl # Undefined /\ ~fin.hookUrl.abs)
             => fout.again.url = EnsureAppended(fout.hookUrl, fin.accountId)

\* account "sales+na" with a configured URL holding a token: the URL handed
\* to the watcher came back unchanged from a second call and the route read
\* "sales+na" from it
C39_Witness ==
    /\ fout # NoValue
    /\ fin.accountId = "sales+na"
    /\ fin.hookUrl = Url(TRUE, "http://127.0.0.1:18789/email/inbound",
                         <<Param("token", "abc")>>, "top")
    /\ fout.hookUrl.query = <<Param("token", "abc"), Param("accountId", "sales%2Bna")>>
    /\ fout.again # NoValue
    /\ fout.again.url = fout.hookUrl
    /\ fout.routed = Str("sales+na")

====
